---- MODULE Spec2Model ----
(***************************************************************************)
(* Model of the isort language server (bundled/tool/lsp_server.py): the    *)
(* settings registry, the execution dispatcher, the diagnostics            *)
(* translator, the code-action provider and the edit builder.              *)
(*                                                                         *)
(* Every Python string is a sequence of atoms (a Text).  An atom is either *)
(* a control character (CR, LF), or a word that the code only ever tests   *)
(* as a whole (a path component, a command-line token, a keyword).         *)
(***************************************************************************)
EXTENDS Integers, Sequences, FiniteSets, TLC

VARIABLES
    initialized,        \* the initialize request has been handled
    WORKSPACE_SETTINGS, \* lsp_server.WORKSPACE_SETTINGS: root -> settings
    GLOBAL_SETTINGS,    \* lsp_server.GLOBAL_SETTINGS: key -> value
    published,          \* per URI, the diagnostics the client last received
    firstArgv,          \* per URI, the first argv a check built for it
    editor_uri,         \* the document the client works on
    last,               \* the event being handled; "none" when idle
    fnIn,               \* input of the pure function under check
    fnOut,              \* its output
    inbox,              \* notifications received and not yet handled
    wire                \* the notifications written to the client, in order

vars == <<initialized, WORKSPACE_SETTINGS, GLOBAL_SETTINGS, published,
          firstArgv, editor_uri, last, fnIn, fnOut, inbox, wire>>

(***************************************************************************)
(* Text primitives                                                         *)
(***************************************************************************)
CR == "<CR>"
LF == "<LF>"
SP == " "

Str(a) == <<a>>

RECURSIVE Concat(_)
Concat(ss) == IF ss = <<>> THEN <<>> ELSE Head(ss) \o Concat(Tail(ss))

StartsWith(t, p) == Len(t) >= Len(p) /\ SubSeq(t, 1, Len(p)) = p

EndsWith(t, p) ==
    Len(t) >= Len(p) /\ SubSeq(t, Len(t) - Len(p) + 1, Len(t)) = p

\* str.find(sub): the least 0-based index of an occurrence, -1 when none.
Find(t, sub) ==
    LET hits == {i \in 1..(Len(t) - Len(sub) + 1) :
                    SubSeq(t, i, i + Len(sub) - 1) = sub}
    IN IF hits = {} THEN -1
       ELSE (CHOOSE i \in hits : \A j \in hits : i <= j) - 1

\* str.replace(old, new) for a non-empty old: left to right, non-overlapping.
RECURSIVE Replace(_, _, _)
Replace(t, old, new) ==
    IF t = <<>> THEN <<>>
    ELSE IF StartsWith(t, old)
         THEN new \o Replace(SubSeq(t, Len(old) + 1, Len(t)), old, new)
         ELSE <<Head(t)>> \o Replace(Tail(t), old, new)

\* str.splitlines(keepends): a line ends at CR LF, at LF or at a lone CR.
RECURSIVE SplitFrom(_, _, _)
SplitFrom(t, cur, keepends) ==
    IF t = <<>> THEN (IF cur = <<>> THEN <<>> ELSE <<cur>>)
    ELSE IF StartsWith(t, <<CR, LF>>)
         THEN <<IF keepends THEN cur \o <<CR, LF>> ELSE cur>>
              \o SplitFrom(SubSeq(t, 3, Len(t)), <<>>, keepends)
         ELSE IF Head(t) \in {CR, LF}
              THEN <<IF keepends THEN cur \o <<Head(t)>> ELSE cur>>
                   \o SplitFrom(Tail(t), <<>>, keepends)
              ELSE SplitFrom(Tail(t), cur \o <<Head(t)>>, keepends)

splitlines(t, keepends) == SplitFrom(t, <<>>, keepends)

\* " ".join(argv)
RECURSIVE Join(_)
Join(argv) ==
    IF argv = <<>> THEN <<>>
    ELSE IF Len(argv) = 1 THEN Head(argv)
         ELSE Head(argv) \o <<SP>> \o Join(Tail(argv))

\* str.lower(): a word with upper-case letters maps to its lower-case form.
LowerAtom(a) ==
    CASE a = "ERROR" -> "error"
      [] a = "Imports are incorrectly sorted" -> "imports are incorrectly sorted"
      [] a = "IMPORTS ARE INCORRECTLY SORTED" -> "imports are incorrectly sorted"
      [] OTHER -> a

lower(t) == [i \in 1..Len(t) |-> LowerAtom(t[i])]

SeqsUpTo(S, n) == UNION {[1..k -> S] : k \in 0..n}

(***************************************************************************)
(* Documents.  A URI is (scheme, path, fragment); a path is the sequence   *)
(* of its components.  The workspace hands out a document for every URI.   *)
(***************************************************************************)
UriA    == [scheme |-> "file", path |-> <<"ws", "a.py">>, fragment |-> ""]
UriCell == [scheme |-> "vscode-notebook-cell", path |-> <<"ws", "nb.ipynb">>,
            fragment |-> "C00001"]
UriStd  == [scheme |-> "file", path |-> <<"usr", "lib", "python3", "os.py">>,
            fragment |-> ""]
UriOut  == [scheme |-> "file", path |-> <<"tmp", "o.py">>, fragment |-> ""]
UriInteractive ==
    [scheme |-> "file", path |-> <<"ws", "w.interactive">>, fragment |-> ""]
UriBad  == [scheme |-> "file", path |-> <<"ws", "bad.py">>, fragment |-> ""]

Uris == {UriA, UriCell, UriStd, UriOut, UriInteractive, UriBad}

SrcA    == <<"x", LF, "import", "b", LF, "import", "a", LF>>
SrcCell == <<"%", "time", LF, "import", "b", LF, "import", "a">>
SrcStd  == <<"import", "sys", LF>>
SrcOut  == <<"from", "b", CR, LF, "import", "a", CR, LF>>
SrcInteractive == <<"import", "b", LF, "import", "a", LF>>
SrcBad  == <<"import", "b", LF, "import", "a", LF, "?", LF>>

SourceOf(uri) ==
    CASE uri = UriA -> SrcA
      [] uri = UriCell -> SrcCell
      [] uri = UriStd -> SrcStd
      [] uri = UriInteractive -> SrcInteractive
      [] uri = UriBad -> SrcBad
      [] OTHER -> SrcOut

\* pygls TextDocument: path is the path the workspace derived for the URI,
\* lines is source.splitlines(True).
get_text_document(uri) ==
    [uri |-> uri, path |-> uri.path, source |-> SourceOf(uri), version |-> 1]

document_lines(document) == splitlines(document.source, TRUE)

UriNone == [scheme |-> "", path |-> <<>>, fragment |-> ""]

\* the document argument None
NoDocument ==
    [uri |-> UriNone, path |-> <<>>, source |-> <<>>, version |-> 0]

\* the path None of a document
PathNone == <<"None">>

\* pygls uris.to_fs_path / uris.from_fs_path
to_fs_path(uri) == uri.path

from_fs_path(p) == [scheme |-> "file", path |-> p, fragment |-> ""]

\* the path the document object carries, whatever its URI
DocumentPathOfDocument(document) == document.path

_get_document_path(document) ==
    IF document.uri.scheme # "file"
    THEN LET file_uri == [scheme |-> "file", path |-> document.uri.path,
                          fragment |-> ""]
             result == to_fs_path(file_uri)
         IN IF result # <<>> THEN result ELSE document.path
    ELSE document.path

dirname(p) == IF p = <<>> THEN <<>> ELSE SubSeq(p, 1, Len(p) - 1)

STDLIB_ROOT == <<"usr", "lib", "python3">>

is_stdlib_file(p) == StartsWith(p, STDLIB_ROOT)

is_interactive(file_path) ==
    file_path # <<>> /\ file_path[Len(file_path)] \in {"w.interactive"}

\* MAGIC_COMMAND_REGEX ^\s*(%{1,2}\w|!): optional blanks, then % or !.
RECURSIVE SkipBlanks(_)
SkipBlanks(line) ==
    IF line # <<>> /\ Head(line) = SP THEN SkipBlanks(Tail(line)) ELSE line

IsWord(a) == a \notin {CR, LF, SP, "%", "!", "?"}

IsMagic(line) ==
    LET r == SkipBlanks(line)
    IN r # <<>> /\ \/ Head(r) = "!"
                   \/ Head(r) = "%" /\ Len(r) >= 2 /\ IsWord(r[2])
                   \/ Head(r) = "%" /\ Len(r) >= 3 /\ r[2] = "%" /\ IsWord(r[3])

strip_magic_commands(source) ==
    LET lines == splitlines(source, TRUE)
    IN Concat([i \in 1..Len(lines) |->
                 IF IsMagic(lines[i]) THEN <<LF>> ELSE lines[i]])

\* ast.parse fails on the words that are no Python.
ast_parse_ok(code) == \A i \in 1..Len(code) : code[i] \notin {"%", "!", "?"}

\* every text passes for Python
AnythingIsPython(code) == TRUE

is_python(code) == ast_parse_ok(strip_magic_commands(code))


(***************************************************************************)
(* Python dict: insertion-ordered sequence of <<key, value>> pairs.        *)
(***************************************************************************)
DictKeys(d) == [i \in 1..Len(d) |-> d[i][1]]

DictValues(d) == [i \in 1..Len(d) |-> d[i][2]]

DictHas(d, k) == \E i \in 1..Len(d) : d[i][1] = k

DictGet(d, k) == d[CHOOSE i \in 1..Len(d) : d[i][1] = k][2]

DictSet(d, k, v) ==
    IF DictHas(d, k)
    THEN [i \in 1..Len(d) |-> IF d[i][1] = k THEN <<k, v>> ELSE d[i]]
    ELSE Append(d, <<k, v>>)

\* dict.get(key, default) on a function whose domain is the keys present
Get(d, k, default) == IF k \in DOMAIN d THEN d[k] ELSE default

(***************************************************************************)
(* Settings                                                                *)
(***************************************************************************)
TOOL_MODULE == <<"isort">>
TOOL_ARGS == <<>>

sys_executable == <<"python-host">>
OTHER_PYTHON == <<"python-other">>

SERVER_CWD == <<"srv">>

\* lsp_utils.is_current_interpreter
is_current_interpreter(executable) == executable = sys_executable

\* lsp_utils.normalize_path: normpath drops the "." components
normalize_path(p) == SelectSeq(p, LAMBDA c : c # ".")

DefaultSeverity == [E |-> "Hint", W |-> "Warning"]

_get_global_defaults(G) ==
    [check |-> Get(G, "check", FALSE),
     path |-> Get(G, "path", <<>>),
     severity |-> Get(G, "severity", DefaultSeverity),
     interpreter |-> Get(G, "interpreter", <<sys_executable>>),
     args |-> Get(G, "args", <<>>),
     importStrategy |-> Get(G, "importStrategy", "useBundled"),
     showNotifications |-> Get(G, "showNotifications", "off")]

WithRoot(key, rest) ==
    [cwd |-> key, workspaceFS |-> key, workspace |-> from_fs_path(key),
     check |-> rest.check, path |-> rest.path, severity |-> rest.severity,
     interpreter |-> rest.interpreter, args |-> rest.args,
     importStrategy |-> rest.importStrategy,
     showNotifications |-> rest.showNotifications]

RECURSIVE StoreSettings(_, _)
StoreSettings(W, settings) ==
    IF settings = <<>> THEN W
    ELSE LET setting == Head(settings)
             key == normalize_path(to_fs_path(setting.workspace))
         IN StoreSettings(
                DictSet(W, key, [setting EXCEPT !.workspaceFS = key]),
                Tail(settings))

\* an update without the branch for an empty settings list
UpdateWorkspaceSettingsWithoutDefault(W, G, settings) ==
    StoreSettings(W, settings)

_update_workspace_settings(W, G, settings) ==
    IF settings = <<>>
    THEN LET key == normalize_path(SERVER_CWD)
         IN DictSet(W, key, WithRoot(key, _get_global_defaults(G)))
    ELSE StoreSettings(W, settings)

WorkspaceRoots(W) == {DictValues(W)[i].workspaceFS : i \in 1..Len(W)}

\* the walk from the path up to (excluding) the filesystem root
RECURSIVE WalkUp(_, _)
WalkUp(p, workspaces) ==
    IF p = <<>> THEN <<"None">>
    ELSE IF normalize_path(p) \in workspaces THEN normalize_path(p)
         ELSE WalkUp(dirname(p), workspaces)

_get_document_key(W, document) ==
    IF W # <<>>
    THEN WalkUp(_get_document_path(document), WorkspaceRoots(W))
    ELSE <<"None">>

\* a lookup that falls back to the first registered settings
SettingsByDocumentFirstRegistered(W, G, document) ==
    IF _get_document_key(W, document) = <<"None">>
    THEN DictValues(W)[1]
    ELSE DictGet(W, _get_document_key(W, document))

\* list(...)[0] of an empty registry
IndexError == [raise |-> "IndexError"]

_get_settings_by_document(W, G, document) ==
    IF document = NoDocument \/ document.path = PathNone
    THEN IF W = <<>> THEN IndexError ELSE DictValues(W)[1]
    ELSE LET key == _get_document_key(W, document)
         IN IF key = <<"None">>
            THEN LET k == normalize_path(
                              dirname(_get_document_path(document)))
                 IN WithRoot(k, _get_global_defaults(G))
            ELSE DictGet(W, key)


(***************************************************************************)
(* Execution dispatcher.  `out` is what the external tool does when it is  *)
(* called: kind "ok" (it returns stdout, stderr and, over RPC, exception), *)
(* "raise" (the call raises), or, in-process only, isort's FileSkipComment *)
(* and FileSkipped.                                                        *)
(***************************************************************************)
NoResult == [stdout |-> <<>>, stderr |-> <<>>]

\* _run_tool_on_document, lines 685-701: if settings["path"] / elif / else
SelectOnDocument(settings) ==
    IF settings.path # <<>> THEN [use_path |-> TRUE, use_rpc |-> FALSE]
    ELSE IF settings.interpreter # <<>>
            /\ ~is_current_interpreter(settings.interpreter[1])
         THEN [use_path |-> FALSE, use_rpc |-> TRUE]
         ELSE [use_path |-> FALSE, use_rpc |-> FALSE]

\* the interpreter tested before the path
SelectToolInterpreterFirst(settings) ==
    IF Len(settings.interpreter) > 0
       /\ ~is_current_interpreter(settings.interpreter[1])
    THEN [use_path |-> FALSE, use_rpc |-> TRUE]
    ELSE IF Len(settings.path) > 0
         THEN [use_path |-> TRUE, use_rpc |-> FALSE]
         ELSE [use_path |-> FALSE, use_rpc |-> FALSE]

\* _run_tool, lines 779-795: if len(settings["path"]) > 0 / elif / else
SelectTool(settings) ==
    IF Len(settings.path) > 0 THEN [use_path |-> TRUE, use_rpc |-> FALSE]
    ELSE IF Len(settings.interpreter) > 0
            /\ ~is_current_interpreter(settings.interpreter[1])
         THEN [use_path |-> FALSE, use_rpc |-> TRUE]
         ELSE [use_path |-> FALSE, use_rpc |-> FALSE]

\* the channels a dispatcher calls, in order, for its use_path / use_rpc flags
Channels(use_path, use_rpc) ==
    IF use_path THEN <<"run_path">>
    ELSE IF use_rpc THEN <<"run_over_json_rpc">>
         ELSE <<"run_module">>

_to_run_result_with_logging(rpc_result) ==
    LET error == IF rpc_result.exception # <<>> THEN rpc_result.exception
                 ELSE IF rpc_result.stderr # <<>> THEN rpc_result.stderr
                      ELSE <<>>
    IN [stdout |-> rpc_result.stdout, stderr |-> error]

\* a dispatcher that works on the registry's own object: the registry
\* holds what the dispatcher wrote
AliasWrites(W, key, mutated) ==
    IF DictHas(W, key) THEN DictSet(W, key, mutated) ELSE W

\* copy.deepcopy(settings): what the registry holds after the caller has
\* mutated the copy into `mutated`
DeepCopyKeeps(W, key, mutated) == W

SkippedRun(why) ==
    [ret |-> "null", result |-> NoResult, calls |-> <<>>, argv |-> <<>>,
     cmdline |-> <<>>, source |-> <<>>, settings_path |-> <<>>,
     skipped |-> why]

\* an argv with the call's extra arguments before the workspace's
BuildArgvExtraFirst(settings, doc_path, use_stdin, extra_args, use_path) ==
    LET argv == IF use_path THEN settings.path ELSE <<TOOL_MODULE>>
    IN IF use_stdin
       THEN argv \o <<Str("-")>> \o TOOL_ARGS \o extra_args \o settings.args
            \o <<Str("--filename"), doc_path>>
       ELSE argv \o TOOL_ARGS \o extra_args \o settings.args \o <<doc_path>>

\* lines 703-709: argv += ...
BuildArgv(settings, doc_path, use_stdin, extra_args, use_path) ==
    LET argv == IF use_path THEN settings.path ELSE <<TOOL_MODULE>>
    IN IF use_stdin
       THEN argv \o <<Str("-")>> \o TOOL_ARGS \o settings.args \o extra_args
            \o <<Str("--filename"), doc_path>>
       ELSE argv \o TOOL_ARGS \o settings.args \o extra_args \o <<doc_path>>

\* line 713
SubstituteFileDirname(argv, doc_path) ==
    [i \in 1..Len(argv) |->
        IF argv[i] = Str("${fileDirname}") THEN dirname(doc_path) ELSE argv[i]]

\* the value of the one-element set S (binds a value that is used often)
The(S) == CHOOSE x \in S : TRUE

\* lines 685-771, for the settings and the path already resolved
Dispatch(document, doc_path, settings, sel, use_stdin, extra_args, out) ==
    LET argv == SubstituteFileDirname(
                    BuildArgv(settings, doc_path, use_stdin, extra_args,
                              sel.use_path), doc_path)
        source == Replace(document.source, <<CR, LF>>, <<LF>>)
        ran == [ret |-> "result", result |-> NoResult,
                calls |-> <<[fn |-> Head(Channels(sel.use_path, sel.use_rpc)),
                             by |-> "_run_tool_on_document", argv |-> argv,
                             use_stdin |-> use_stdin, source |-> source,
                             path |-> settings.path,
                             interpreter |-> settings.interpreter]>>,
                argv |-> argv,
                cmdline |->
                    IF sel.use_path THEN Join(argv)
                    ELSE IF sel.use_rpc
                         THEN Join(settings.interpreter \o <<Str("-m")>>
                                   \o argv)
                         ELSE Join(<<sys_executable, Str("-m")>> \o argv),
                source |-> source,
                settings_path |->
                    IF sel.use_path
                    THEN BuildArgv(settings, doc_path, use_stdin, extra_args,
                                   TRUE)
                    ELSE settings.path,
                skipped |-> "no"]
    IN IF out.kind = "raise" THEN [ran EXCEPT !.ret = "raise"]
       ELSE IF sel.use_path
            THEN [ran EXCEPT !.result =
                      [stdout |-> out.stdout, stderr |-> out.stderr]]
       ELSE IF sel.use_rpc
            THEN [ran EXCEPT !.result = _to_run_result_with_logging(out)]
       ELSE IF out.kind \in {"FileSkipComment", "FileSkipped"}
            THEN [ran EXCEPT !.ret = "null", !.skipped = out.kind]
       ELSE [ran EXCEPT !.result =
                 [stdout |-> out.stdout, stderr |-> out.stderr]]

_run_tool_on_document(W, G, document, use_stdin, extra_args, out) ==
    The({IF is_stdlib_file(doc_path) THEN SkippedRun("stdlib")
         ELSE IF is_interactive(doc_path) THEN SkippedRun("interactive")
         ELSE IF ~is_python(document.source) THEN SkippedRun("not python")
         ELSE Dispatch(document, doc_path, settings, sel, use_stdin,
                       extra_args, out) :
            doc_path \in {_get_document_path(document)},
            settings \in {_get_settings_by_document(W, G, document)},
            sel \in {SelectOnDocument(
                        _get_settings_by_document(W, G, document))}})

\* the registry keeps the settings object the dispatcher worked on, under
\* its root, the synthesized ones included
RegistryKeepsRunSettings(W, G, document, run) ==
    LET settings == _get_settings_by_document(W, G, document)
    IN IF run.calls = <<>> THEN W
       ELSE DictSet(W, settings.workspaceFS,
                    [settings EXCEPT !.path = run.settings_path])

\* the registry after _run_tool_on_document: the dispatcher works on a deep
\* copy (line 680), so its argv += on settings["path"] stays in the copy
RegistryAfterRun(W, G, document, run) ==
    LET key == _get_document_key(W, document)
        settings == _get_settings_by_document(W, G, document)
    IN IF run.calls = <<>> THEN W
       ELSE DeepCopyKeeps(W, key, [settings EXCEPT !.path = run.settings_path])

\* _run_tool(extra_args, settings): the version / config query
_run_tool(extra_args, settings, out) ==
    LET use_path == SelectTool(settings).use_path
        use_rpc == SelectTool(settings).use_rpc
        argv == (IF use_path THEN settings.path ELSE <<TOOL_MODULE>>)
                \o extra_args
        call == [fn |-> Head(Channels(use_path, use_rpc)), by |-> "_run_tool",
                 argv |-> argv, use_stdin |-> TRUE, source |-> <<>>,
                 path |-> settings.path, interpreter |-> settings.interpreter]
        result == IF use_rpc THEN _to_run_result_with_logging(out)
                  ELSE [stdout |-> out.stdout, stderr |-> out.stderr]
    IN [ret |-> IF out.kind = "raise" THEN "raise" ELSE "result",
        result |-> IF out.kind = "raise" THEN NoResult ELSE result,
        calls |-> <<call>>, argv |-> argv,
        settings_path |-> IF use_path THEN argv ELSE settings.path]


(***************************************************************************)
(* Diagnostics translator                                                  *)
(***************************************************************************)
SORT_PHRASE == <<"imports are incorrectly sorted">>

\* str.startswith(word) on the first word of a line
HasPrefix(a, w) ==
    \/ a = w
    \/ w = "import" /\ a = "importlib"

LineStartsWith(line, w) == line # <<>> /\ HasPrefix(Head(line), w)

\* the phrase searched without lower()
SortingErrorCaseSensitive(line) ==
    /\ LineStartsWith(line, "ERROR")
    /\ Find(line, SORT_PHRASE) > 0

_is_sorting_error(line) ==
    /\ LineStartsWith(line, "ERROR")
    /\ Find(lower(line), SORT_PHRASE) > 0

_get_severity(code_type, severity) ==
    LET value == Get(severity, code_type, "Warning")
    IN IF value \in {"Error", "Warning", "Information", "Hint"} THEN value
       ELSE "Warning"

_parse_output(document, output, severity) ==
    LET out_lines == splitlines(output, FALSE)
        has_error == \E i \in 1..Len(out_lines) : _is_sorting_error(out_lines[i])
        lines == document_lines(document)
        hits == {i \in 1..Len(lines) : LineStartsWith(lines[i], "import")
                                       \/ LineStartsWith(lines[i], "from")}
        import_line == IF hits = {} THEN 0
                       ELSE (CHOOSE i \in hits : \A j \in hits : i <= j) - 1
    IN IF has_error
       THEN <<[start |-> <<import_line, 0>>, end |-> <<import_line + 1, 0>>,
               message |-> "Imports are incorrectly sorted and/or formatted.",
               severity |-> _get_severity("E", severity),
               code |-> "E", source |-> "isort"]>>
       ELSE <<>>

\* settings.get("check", True)
CheckDefaultsToTrue(settings) == Get(settings, "check", TRUE)

\* line 128: settings.get("check", False)
CheckEnabled(settings) == Get(settings, "check", FALSE)

\* a helper without the try of lines 132-144: an exception of the
\* dispatcher leaves it
LintingHelperWithoutTry(W, G, document, out) ==
    The({IF ~CheckEnabled(settings)
         THEN [diagnostics |-> <<>>, run |-> SkippedRun("check disabled"),
               raised |-> FALSE]
         ELSE IF run.ret = "result" /\ run.result.stderr # <<>>
              THEN [diagnostics |-> _parse_output(document, run.result.stderr,
                                        Get(settings, "severity", <<>>)),
                    run |-> run, raised |-> FALSE]
              ELSE [diagnostics |-> <<>>, run |-> run,
                    raised |-> run.ret = "raise"] :
            settings \in {_get_settings_by_document(W, G, document)},
            run \in {_run_tool_on_document(W, G, document, TRUE,
                                           <<Str("--check")>>, out)}})

\* _linting_helper: the diagnostics, and the dispatcher run behind them
\* (SkippedRun("check disabled") when the check is off)
_linting_helper(W, G, document, out) ==
    The({IF ~CheckEnabled(settings)
         THEN [diagnostics |-> <<>>, run |-> SkippedRun("check disabled"),
               raised |-> FALSE]
         ELSE IF run.ret = "result" /\ run.result.stderr # <<>>
              THEN [diagnostics |-> _parse_output(document, run.result.stderr,
                                        Get(settings, "severity", <<>>)),
                    run |-> run, raised |-> FALSE]
              ELSE [diagnostics |-> <<>>, run |-> run, raised |-> FALSE] :
            settings \in {_get_settings_by_document(W, G, document)},
            run \in {_run_tool_on_document(W, G, document, TRUE,
                                           <<Str("--check")>>, out)}})

(***************************************************************************)
(* Edit builder                                                            *)
(***************************************************************************)
\* "None" when there is no first line
_get_line_endings(lines) ==
    IF lines = <<>> THEN <<"None">>
    ELSE IF EndsWith(lines[1], <<CR, LF>>) THEN <<CR, LF>> ELSE <<LF>>

\* the text as the tool wrote it
KeepToolLineEndings(document, text) == text

_match_line_endings(document, text) ==
    LET expected == _get_line_endings(splitlines(document.source, TRUE))
        actual == _get_line_endings(splitlines(text, TRUE))
    IN IF actual = expected \/ actual = <<"None">> \/ expected = <<"None">>
       THEN text
       ELSE Replace(text, actual, expected)

TextEdit(document, new_text) ==
    [start |-> <<0, 0>>, end |-> <<Len(document_lines(document)), 0>>,
     new_text |-> new_text]

\* the edit builder without the notebook-cell step
FormattingHelperNoStrip(document, run) ==
    IF run.ret = "result" /\ run.result.stdout # <<>>
       /\ _match_line_endings(document, run.result.stdout) # document.source
    THEN <<TextEdit(document,
                    _match_line_endings(document, run.result.stdout))>>
    ELSE <<>>

\* <<>> stands for None
_formatting_helper(document, run) ==
    IF run.ret = "result" /\ run.result.stdout # <<>>
    THEN LET matched == _match_line_endings(document, run.result.stdout)
             new_source ==
                 IF document.uri.scheme = "vscode-notebook-cell"
                 THEN IF EndsWith(matched, <<CR, LF>>)
                      THEN SubSeq(matched, 1, Len(matched) - 2)
                      ELSE IF EndsWith(matched, <<LF>>)
                           THEN SubSeq(matched, 1, Len(matched) - 1)
                           ELSE matched
                 ELSE matched
         IN IF new_source # document.source
            THEN <<TextEdit(document, new_source)>>
            ELSE <<>>
    ELSE <<>>

_create_workspace_edits(document, results) ==
    [uri |-> document.uri, version |-> document.version, edits |-> results]


(***************************************************************************)
(* Code-action provider                                                    *)
(***************************************************************************)
SourceOrganizeImports == "source.organizeImports"
QuickFix == "quickfix"

InSeq(x, q) == \E i \in 1..Len(q) : q[i] = x

\* an absent `only` is [present |-> FALSE, kinds |-> <<>>]
Truthy(only) == only.present /\ only.kinds # <<>>

CodeAction(title, kind, data, edit, diagnostics) ==
    [title |-> title, kind |-> kind, data |-> data, edit |-> edit,
     diagnostics |-> diagnostics]

\* the list returned as it is
ActionsAsIs(actions) == [kind |-> "list", actions |-> actions]

\* `return actions if actions else None`
ActionsOrNone(actions) ==
    IF actions # <<>> THEN [kind |-> "list", actions |-> actions]
    ELSE [kind |-> "null", actions |-> <<>>]

\* the quick fix offered with every diagnostic of the request
ActionStubsUnfiltered(uri, only, context_diagnostics) ==
    (IF ~Truthy(only) \/ InSeq(SourceOrganizeImports, only.kinds)
     THEN <<CodeAction("isort: Organize Imports", SourceOrganizeImports, uri,
                       <<>>, <<>>)>>
     ELSE <<>>)
    \o (IF (~Truthy(only) \/ InSeq(QuickFix, only.kinds))
           /\ context_diagnostics # <<>>
        THEN <<CodeAction("isort: Fix import sorting and/or formatting",
                          QuickFix, uri, <<>>, context_diagnostics)>>
        ELSE <<>>)

\* lines 261-293: the stubs
ActionStubs(uri, only, context_diagnostics) ==
    LET organize ==
            IF ~Truthy(only) \/ InSeq(SourceOrganizeImports, only.kinds)
            THEN <<CodeAction("isort: Organize Imports",
                              SourceOrganizeImports, uri, <<>>, <<>>)>>
            ELSE <<>>
        diagnostics ==
            SelectSeq(context_diagnostics,
                      LAMBDA d : d.source = "isort" /\ d.code = "E")
        quickfix ==
            IF (~Truthy(only) \/ InSeq(QuickFix, only.kinds))
               /\ diagnostics # <<>>
            THEN <<CodeAction("isort: Fix import sorting and/or formatting",
                              QuickFix, uri, <<>>, diagnostics)>>
            ELSE <<>>
    IN organize \o quickfix

NoRun == SkippedRun("not run")

\* lines 236-240
OnlyOrganizeImports(only) ==
    /\ Truthy(only)
    /\ Len(only.kinds) = 1
    /\ InSeq(SourceOrganizeImports, only.kinds)

\* diagnostics are cleared whatever the formatting run returned
ClearAlways(uri, results) == <<[uri |-> uri, diagnostics |-> <<>>]>>

\* lines 245-250 and 301-306: `if results:` publish the empty list
ClearIfEdit(uri, results) ==
    IF results # <<>> THEN <<[uri |-> uri, diagnostics |-> <<>>]>> ELSE <<>>

\* the action returned without its edit
EagerActionNoEdit(text_document, uri, results) ==
    [kind |-> "list",
     actions |-> <<CodeAction("isort: Organize Imports",
                              SourceOrganizeImports, uri, <<>>, <<>>)>>]

\* lines 251-259: the action that carries the edit
EagerAction(text_document, uri, results) ==
    [kind |-> "list",
     actions |-> <<CodeAction("isort: Organize Imports",
                              SourceOrganizeImports, uri,
                              <<_create_workspace_edits(text_document,
                                                        results)>>,
                              <<>>)>>]

code_action_organize_imports(W, G, text_document, only, context_diagnostics, out) ==
    IF is_stdlib_file(_get_document_path(text_document))
    THEN [response |-> [kind |-> "null", actions |-> <<>>],
          pubs |-> <<>>, run |-> NoRun]
    ELSE IF OnlyOrganizeImports(only)
    THEN The({IF run.ret = "raise"
              THEN [response |-> [kind |-> "error", actions |-> <<>>],
                    pubs |-> <<>>, run |-> run]
              ELSE IF _formatting_helper(text_document, run) # <<>>
                   THEN [response |->
                             EagerAction(text_document, text_document.uri,
                                 _formatting_helper(text_document, run)),
                         pubs |-> ClearIfEdit(text_document.uri,
                                     _formatting_helper(text_document, run)),
                         run |-> run]
                   ELSE [response |->
                             ActionsOrNone(ActionStubs(text_document.uri, only,
                                                       context_diagnostics)),
                         pubs |-> <<>>, run |-> run] :
                 run \in {_run_tool_on_document(W, G, text_document, TRUE,
                                                <<>>, out)}})
    ELSE [response |-> ActionsOrNone(ActionStubs(text_document.uri, only,
                                                 context_diagnostics)),
          pubs |-> <<>>, run |-> NoRun]

\* an edit that replaces the document by nothing
EmptyEdit(text_document) == <<TextEdit(text_document, <<>>)>>

\* lines 311-319: the original code as it is
NoChangeEdit(text_document) ==
    <<TextEdit(text_document, text_document.source)>>

code_action_resolve(W, G, text_document, params, out) ==
    The({IF run.ret = "raise"
         THEN [response |-> [kind |-> "error", actions |-> <<>>],
               pubs |-> <<>>, run |-> run]
         ELSE [response |->
                   [kind |-> "action",
                    actions |-> <<[params EXCEPT !.edit =
                        <<_create_workspace_edits(text_document,
                            IF results # <<>> THEN results
                            ELSE NoChangeEdit(text_document))>>]>>],
               pubs |-> ClearIfEdit(text_document.uri, results),
               run |-> run] :
            run \in {_run_tool_on_document(W, G, text_document, TRUE, <<>>,
                                           out)},
            results \in {_formatting_helper(text_document,
                            _run_tool_on_document(W, G, text_document, TRUE,
                                                  <<>>, out))}})

(***************************************************************************)
(* Inputs: what the client sends and what the external tool answers        *)
(***************************************************************************)
MaxContextDiagnostics == 1

PathChoices == {<<>>, <<Str("isort")>>}
InterpreterChoices == {<<>>, <<sys_executable>>, <<OTHER_PYTHON>>}
ArgsChoices == {<<>>, <<Str("--profile"), Str("${fileDirname}")>>}

ClientSetting(root, path, interpreter, args, check) ==
    [cwd |-> root, workspaceFS |-> <<>>, workspace |-> from_fs_path(root),
     check |-> check, path |-> path, severity |-> DefaultSeverity,
     interpreter |-> interpreter, args |-> args,
     importStrategy |-> "useBundled", showNotifications |-> "off"]

\* a settings object that has no "check" key
WithoutCheck(setting) ==
    [k \in DOMAIN setting \ {"check"} |-> setting[k]]

ClientSettings ==
    {ClientSetting(<<"ws", ".">>, p, i, a, c) :
        p \in PathChoices, i \in InterpreterChoices, a \in ArgsChoices,
        c \in BOOLEAN}
    \cup {WithoutCheck(ClientSetting(<<"ws", ".">>, p, i, <<>>, FALSE)) :
             p \in PathChoices, i \in InterpreterChoices}

SettingsLists == {<<>>} \cup {<<cs>> : cs \in ClientSettings}

GlobalChoices ==
    {<<>>, [check |-> TRUE, interpreter |-> <<OTHER_PYTHON>>]}

SORTED_OUT == <<"import", "a", LF, "import", "b", LF>>

\* the tool writes nothing, the source it was sent (ending with a line
\* terminator), or the sorted imports
StdoutChoices(document) ==
    LET sent == Replace(document.source, <<CR, LF>>, <<LF>>)
    IN {<<>>, IF EndsWith(sent, <<LF>>) THEN sent ELSE sent \o <<LF>>,
        SORTED_OUT}

SortError ==
    <<"ERROR", ":", "a.py", "Imports are incorrectly sorted", LF>>

StderrChoices == {<<>>, SortError}

NoOutcome ==
    [kind |-> "none", stdout |-> <<>>, stderr |-> <<>>, exception |-> <<>>]

Raises == [NoOutcome EXCEPT !.kind = "raise"]

Returns(document, exceptions) ==
    {[kind |-> "ok", stdout |-> o, stderr |-> e, exception |-> x] :
        o \in StdoutChoices(document), e \in StderrChoices, x \in exceptions}

\* what a channel can do when called for a document
OutcomesFor(fn, document) ==
    CASE fn = "run_path" -> Returns(document, {<<>>}) \cup {Raises}
      [] fn = "run_over_json_rpc" ->
            Returns(document, {<<>>, <<"Traceback">>}) \cup {Raises}
      [] OTHER ->
            Returns(document, {<<>>}) \cup
            {Raises, [NoOutcome EXCEPT !.kind = "FileSkipComment"],
             [NoOutcome EXCEPT !.kind = "FileSkipped"]}

\* the outcomes possible for the run a handler would make
OutcomesOf(probe, document) ==
    IF probe.calls = <<>> THEN {NoOutcome}
    ELSE OutcomesFor(probe.calls[1].fn, document)

IsortE == [source |-> "isort", code |-> "E", start |-> <<0, 0>>]
IsortW == [source |-> "isort", code |-> "W", start |-> <<1, 0>>]
PylintE == [source |-> "pylint", code |-> "E", start |-> <<2, 0>>]

ContextDiagnostics ==
    SeqsUpTo({IsortE, IsortW, PylintE}, MaxContextDiagnostics)

OnlyChoices ==
    {[present |-> FALSE, kinds |-> <<>>]} \cup
    {[present |-> TRUE, kinds |-> k] :
        k \in {<<>>, <<SourceOrganizeImports>>, <<QuickFix>>, <<"">>,
               <<QuickFix, SourceOrganizeImports>>,
               <<SourceOrganizeImports, SourceOrganizeImports>>}}

NoRequest ==
    [only |-> [present |-> FALSE, kinds |-> <<>>], diagnostics |-> <<>>,
     kind |-> ""]

NoResponse == [kind |-> "none", actions |-> <<>>]

(***************************************************************************)
(* The server                                                              *)
(***************************************************************************)
Unset == [set |-> FALSE, diagnostics |-> <<>>]

Publish(pub, pubs) ==
    [u \in Uris |->
        LET mine == SelectSeq(pubs, LAMBDA m : m.uri = u)
        IN IF mine = <<>> THEN pub[u]
           ELSE [set |-> TRUE, diagnostics |-> mine[Len(mine)].diagnostics]]

Event(handler, uri, request, run, out, pubs, response) ==
    [handler |-> handler, uri |-> uri, request |-> request,
     before |-> IF uri \in Uris THEN published[uri] ELSE Unset,
     repeated |-> uri \in Uris /\ firstArgv[uri] # <<>>,
     ret |-> run.ret, result |-> run.result, calls |-> run.calls,
     argv |-> run.argv, cmdline |-> run.cmdline, skipped |-> run.skipped,
     out |-> out, pubs |-> pubs, response |-> response]

Idle ==
    [Event("none", UriNone, NoRequest, NoRun, NoOutcome, <<>>, NoResponse)
     EXCEPT !.before = Unset, !.repeated = FALSE]

NoInput == [source |-> <<>>, output |-> <<>>]
NoOutput == [done |-> FALSE, diagnostics |-> <<>>]

Init ==
    /\ initialized = FALSE
    /\ WORKSPACE_SETTINGS = <<>>
    /\ GLOBAL_SETTINGS = <<>>
    /\ published = [u \in Uris |-> Unset]
    /\ firstArgv = [u \in Uris |-> <<>>]
    /\ editor_uri \in Uris
    /\ last = Idle
    /\ fnIn = NoInput
    /\ fnOut = NoOutput
    /\ inbox = <<>>
    /\ wire = <<>>

\* GLOBAL_SETTINGS.update(**globalSettings)
DictUpdate(G, new) ==
    [k \in DOMAIN G \cup DOMAIN new |->
        IF k \in DOMAIN new THEN new[k] ELSE G[k]]

\* _log_info: per registered settings, the version query and, with a
\* verbose trace, the configuration query, each on a deep copy
RECURSIVE _log_info(_, _, _)
_log_info(values, verbose, out) ==
    IF values = <<>> THEN <<>>
    ELSE _run_tool(<<Str("--version-number")>>, Head(values), out).calls
         \o (IF verbose
             THEN _run_tool(<<Str("--show-config")>>, Head(values), out).calls
             ELSE <<>>)
         \o _log_info(Tail(values), verbose, out)

\* the registry after _log_info: each query extends the path list of the
\* deep copy it was given (lines 467 and 504), whatever the tool then does
RECURSIVE RegistryAfterLog(_, _, _, _)
RegistryAfterLog(W, keys, verbose, out) ==
    IF keys = <<>> THEN W
    ELSE LET key == Head(keys)
             s1 == DictGet(W, key)
             W1 == DeepCopyKeeps(W, key,
                       [s1 EXCEPT !.path =
                           _run_tool(<<Str("--version-number")>>, s1,
                                     out).settings_path])
             s2 == DictGet(W1, key)
             W2 == IF verbose
                   THEN DeepCopyKeeps(W1, key,
                            [s2 EXCEPT !.path =
                                _run_tool(<<Str("--show-config")>>, s2,
                                          out).settings_path])
                   ELSE W1
         IN RegistryAfterLog(W2, Tail(keys), verbose, out)

ToolOutcomes ==
    {Raises, [NoOutcome EXCEPT !.kind = "ok", !.stdout = <<"7.0.0", LF>>]}

initialize(settings, globalSettings, verbose, out) ==
    /\ ~initialized
    /\ last = Idle
    /\ initialized' = TRUE
    /\ GLOBAL_SETTINGS' = DictUpdate(GLOBAL_SETTINGS, globalSettings)
    /\ \E populated \in {_update_workspace_settings(
                              WORKSPACE_SETTINGS, GLOBAL_SETTINGS', settings)} :
          WORKSPACE_SETTINGS' =
              RegistryAfterLog(populated, DictKeys(populated), verbose, out)
    /\ last' = [Event("initialize", UriNone, NoRequest, NoRun, out, <<>>,
                      NoResponse)
                EXCEPT !.calls = _log_info(DictValues(WORKSPACE_SETTINGS'),
                                           verbose, out)]
    /\ UNCHANGED <<published, firstArgv, editor_uri, fnIn, fnOut,
                   inbox, wire>>

\* did_open and did_save: the check, then one publication
Lint(handler, uri) ==
    /\ initialized
    /\ last = Idle
    /\ uri = editor_uri
    /\ \E document \in {get_text_document(uri)} :
       \E probe \in {_linting_helper(WORKSPACE_SETTINGS, GLOBAL_SETTINGS,
                                     document, NoOutcome).run} :
       \E out \in OutcomesOf(probe, document) :
       \E lh \in {_linting_helper(WORKSPACE_SETTINGS, GLOBAL_SETTINGS,
                                  document, out)} :
       \E pubs \in {IF lh.raised THEN <<>>
                    ELSE <<[uri |-> uri, diagnostics |-> lh.diagnostics]>>} :
          /\ WORKSPACE_SETTINGS' =
                 RegistryAfterRun(WORKSPACE_SETTINGS, GLOBAL_SETTINGS,
                                  document, lh.run)
          /\ published' = Publish(published, pubs)
          /\ firstArgv' =
                 IF lh.run.calls # <<>> /\ firstArgv[uri] = <<>>
                 THEN [firstArgv EXCEPT ![uri] = lh.run.argv]
                 ELSE firstArgv
          /\ last' = Event(handler, uri, NoRequest, lh.run, out, pubs,
                           IF lh.raised
                           THEN [kind |-> "error", actions |-> <<>>]
                           ELSE NoResponse)
          /\ UNCHANGED <<initialized, GLOBAL_SETTINGS, editor_uri, fnIn, fnOut,
                   inbox, wire>>

did_open(uri) == Lint("did_open", uri)

did_save(uri) == Lint("did_save", uri)

did_close(uri) ==
    /\ initialized
    /\ last = Idle
    /\ uri = editor_uri
    /\ \E pubs \in {<<[uri |-> uri, diagnostics |-> <<>>]>>} :
          /\ published' = Publish(published, pubs)
          /\ last' = Event("did_close", uri, NoRequest, NoRun, NoOutcome,
                           pubs, NoResponse)
    /\ UNCHANGED <<initialized, WORKSPACE_SETTINGS, GLOBAL_SETTINGS,
                   firstArgv, editor_uri, fnIn, fnOut,
                   inbox, wire>>

code_action(uri, only, context_diagnostics) ==
    /\ initialized
    /\ last = Idle
    /\ uri = editor_uri
    /\ \E document \in {get_text_document(uri)} :
       \E probe \in {code_action_organize_imports(
                         WORKSPACE_SETTINGS, GLOBAL_SETTINGS, document, only,
                         context_diagnostics, NoOutcome).run} :
       \E out \in OutcomesOf(probe, document) :
       \E r \in {code_action_organize_imports(
                     WORKSPACE_SETTINGS, GLOBAL_SETTINGS, document, only,
                     context_diagnostics, out)} :
          /\ WORKSPACE_SETTINGS' =
                 RegistryAfterRun(WORKSPACE_SETTINGS, GLOBAL_SETTINGS,
                                  document, r.run)
          /\ published' = Publish(published, r.pubs)
          /\ last' = Event("code_action", uri,
                           [only |-> only, diagnostics |-> context_diagnostics,
                            kind |-> ""],
                           r.run, out, r.pubs, r.response)
          /\ UNCHANGED <<initialized, GLOBAL_SETTINGS, firstArgv, editor_uri,
                         fnIn, fnOut,
                   inbox, wire>>

\* the client resolves a stub it was given: params.data is the URI
resolve(uri, kind) ==
    /\ initialized
    /\ last = Idle
    /\ uri = editor_uri
    /\ \E document \in {get_text_document(uri)} :
       \E params \in {CodeAction("isort: Organize Imports", kind, uri, <<>>,
                                 <<>>)} :
       \E probe \in {code_action_resolve(WORKSPACE_SETTINGS, GLOBAL_SETTINGS,
                                         document, params, NoOutcome).run} :
       \E out \in OutcomesOf(probe, document) :
       \E r \in {code_action_resolve(WORKSPACE_SETTINGS, GLOBAL_SETTINGS,
                                     document, params, out)} :
          /\ WORKSPACE_SETTINGS' =
                 RegistryAfterRun(WORKSPACE_SETTINGS, GLOBAL_SETTINGS,
                                  document, r.run)
          /\ published' = Publish(published, r.pubs)
          /\ last' = Event("code_action_resolve", uri,
                           [NoRequest EXCEPT !.kind = kind],
                           r.run, out, r.pubs, r.response)
          /\ UNCHANGED <<initialized, GLOBAL_SETTINGS, firstArgv, editor_uri,
                         fnIn, fnOut,
                   inbox, wire>>

\* the handler returns and the server waits for the next event
handled ==
    /\ last # Idle
    /\ last' = Idle
    /\ UNCHANGED <<initialized, WORKSPACE_SETTINGS, GLOBAL_SETTINGS,
                   published, firstArgv, editor_uri, fnIn, fnOut,
                   inbox, wire>>

Next ==
    \/ \E s \in SettingsLists, g \in GlobalChoices, v \in BOOLEAN,
          o \in ToolOutcomes : initialize(s, g, v, o)
    \/ \E u \in Uris : did_open(u)
    \/ \E u \in Uris : did_save(u)
    \/ \E u \in Uris : did_close(u)
    \/ \E u \in Uris, only \in OnlyChoices, d \in ContextDiagnostics :
          code_action(u, only, d)
    \/ \E u \in Uris, k \in {SourceOrganizeImports, QuickFix} : resolve(u, k)
    \/ handled

Spec == Init /\ [][Next]_vars


(***************************************************************************)
(* The check as a function of the document and of the tool's stderr        *)
(***************************************************************************)
MaxDocLines == 3
MaxStderrLines == 2

DocLineChoices ==
    {<<"import", "a">>, <<"from", "b">>, <<SP, "import", "a">>,
     <<"importlib">>, <<"x">>}

StderrLineChoices ==
    {<<"ERROR", ":", "a.py", "Imports are incorrectly sorted">>,
     <<"error", ":", "imports are incorrectly sorted">>,
     <<"imports are incorrectly sorted", "ERROR">>,
     <<"ERROR", ":", "boom">>}

\* the lines, each ended by LF
Unlines(lines) == Concat([i \in 1..Len(lines) |-> lines[i] \o <<LF>>])

ParseInputs ==
    {[source |-> Unlines(d), output |-> Unlines(e)] :
        d \in SeqsUpTo(DocLineChoices, MaxDocLines),
        e \in SeqsUpTo(StderrLineChoices, MaxStderrLines)}

\* one workspace, /ws, checked in-process
CheckedWorkspace ==
    _update_workspace_settings(<<>>, <<>>,
        <<ClientSetting(<<"ws">>, <<>>, <<>>, <<>>, TRUE)>>)

ParseInit ==
    /\ initialized = TRUE
    /\ WORKSPACE_SETTINGS = CheckedWorkspace
    /\ GLOBAL_SETTINGS = <<>>
    /\ published = [u \in Uris |-> Unset]
    /\ firstArgv = [u \in Uris |-> <<>>]
    /\ editor_uri = UriA
    /\ last = Idle
    /\ fnIn \in ParseInputs
    /\ fnOut = NoOutput
    /\ inbox = <<>>
    /\ wire = <<>>

\* _linting_helper on a document with the drawn source, the tool writing
\* the drawn text to stderr
ParseStep ==
    /\ ~fnOut.done
    /\ \E document \in {[get_text_document(UriA)
                          EXCEPT !.source = fnIn.source]} :
       \E out \in {[NoOutcome EXCEPT !.kind = "ok", !.stderr = fnIn.output]} :
          fnOut' = [done |-> TRUE,
                    diagnostics |->
                        _linting_helper(WORKSPACE_SETTINGS, GLOBAL_SETTINGS,
                                        document, out).diagnostics]
    /\ UNCHANGED <<initialized, WORKSPACE_SETTINGS, GLOBAL_SETTINGS,
                   published, firstArgv, editor_uri, last, fnIn,
                   inbox, wire>>

SpecParse == ParseInit /\ [][ParseStep]_vars

(***************************************************************************)
(* Properties                                                              *)
(***************************************************************************)
LintHandlers == {"did_open", "did_save"}

EventDocument == get_text_document(last.uri)

\* the settings the handled event resolved for its document
EventSettings ==
    _get_settings_by_document(WORKSPACE_SETTINGS, GLOBAL_SETTINGS,
                              EventDocument)

\* the strategy the priority order gives: path, then a foreign interpreter,
\* then the module
PriorityStrategy(path, interpreter) ==
    IF path # <<>> THEN "run_path"
    ELSE IF interpreter # <<>> /\ interpreter[1] # sys_executable
         THEN "run_over_json_rpc"
         ELSE "run_module"

CallSettings(call) == [path |-> call.path, interpreter |-> call.interpreter]

\* C1: every dispatch calls exactly one channel, the one the fixed priority
\* order (path executable, foreign interpreter, in-process module) gives for
\* its settings, and the other dispatcher selects the same channel for the
\* same settings.
C1_OneStrategyByPriority ==
    /\ \A i \in 1..Len(last.calls) :
        LET call == last.calls[i]
        IN /\ call.fn = PriorityStrategy(call.path, call.interpreter)
           /\ call.by = "_run_tool_on_document" =>
                 Channels(SelectTool(CallSettings(call)).use_path,
                          SelectTool(CallSettings(call)).use_rpc) = <<call.fn>>
           /\ call.by = "_run_tool" =>
                 Channels(SelectOnDocument(CallSettings(call)).use_path,
                          SelectOnDocument(CallSettings(call)).use_rpc)
                     = <<call.fn>>
    /\ last.handler \in LintHandlers \cup {"code_action", "code_action_resolve"}
       /\ last.skipped \in {"no", "FileSkipComment", "FileSkipped"}
          => Len(last.calls) = 1
    /\ last.handler = "initialize" =>
          Len(last.calls) \in {Len(WORKSPACE_SETTINGS),
                               2 * Len(WORKSPACE_SETTINGS)}

\* a document dispatch with both a path and a foreign interpreter configured
C1_Witness ==
    /\ last.handler = "did_open"
    /\ Len(last.calls) = 1
    /\ last.calls[1].path # <<>>
    /\ last.calls[1].interpreter = <<OTHER_PYTHON>>
    /\ last.calls[1].fn = "run_path"

\* C2: the argv a did_open / did_save builds for a document equals the argv
\* the first such event built for it.
C2_ArgvDoesNotAccumulate ==
    last.handler \in LintHandlers /\ last.calls # <<>> =>
        /\ last.argv = firstArgv[last.uri]
        /\ last.calls[1].argv = firstArgv[last.uri]

\* a repeated event under a path setting
C2_Witness ==
    /\ last.handler = "did_open"
    /\ last.repeated
    /\ last.calls # <<>>
    /\ last.calls[1].fn = "run_path"
    /\ last.argv = firstArgv[last.uri]

\* C3: with `check` false or absent, did_open / did_save publish the empty
\* list for the URI and call no channel.
C3_CheckDisabledPublishesEmpty ==
    last.handler \in LintHandlers
    /\ ("check" \notin DOMAIN EventSettings \/ EventSettings.check = FALSE)
    => /\ last.pubs = <<[uri |-> last.uri, diagnostics |-> <<>>]>>
       /\ last.calls = <<>>
       /\ published[last.uri] = [set |-> TRUE, diagnostics |-> <<>>]

\* the settings have no `check` key and the document would otherwise run
C3_Witness ==
    /\ last.handler = "did_save"
    /\ last.uri = UriA
    /\ "check" \notin DOMAIN EventSettings
    /\ last.calls = <<>>
    /\ last.pubs = <<[uri |-> UriA, diagnostics |-> <<>>]>>

RefSortingErrorLine(line) ==
    /\ line # <<>>
    /\ line[1] = "ERROR"
    /\ \E j \in 1..Len(line) :
          line[j] \in {"imports are incorrectly sorted",
                       "Imports are incorrectly sorted",
                       "IMPORTS ARE INCORRECTLY SORTED"}

RefHasSortingError(output) ==
    \E i \in 1..Len(splitlines(output, FALSE)) :
        RefSortingErrorLine(splitlines(output, FALSE)[i])

RefImportLines(source) ==
    {k \in 0..(Len(splitlines(source, TRUE)) - 1) :
        /\ splitlines(source, TRUE)[k + 1] # <<>>
        /\ splitlines(source, TRUE)[k + 1][1] \in {"import", "from",
                                                   "importlib"}}

RefAnchor(source) ==
    IF RefImportLines(source) = {} THEN 0
    ELSE CHOOSE k \in RefImportLines(source) :
            \A j \in RefImportLines(source) : k <= j

\* C4: with the check enabled the diagnostics are empty when no stderr line
\* starts with ERROR and contains "imports are incorrectly sorted" in any
\* case; otherwise they are one diagnostic, code "E", source "isort", on
\* (k,0)-(k+1,0) for the first line k starting with import or from, or 0.
C4_DiagnosticsEqualReference ==
    fnOut.done =>
        IF RefHasSortingError(fnIn.output)
        THEN /\ Len(fnOut.diagnostics) = 1
             /\ fnOut.diagnostics[1].code = "E"
             /\ fnOut.diagnostics[1].source = "isort"
             /\ fnOut.diagnostics[1].start = <<RefAnchor(fnIn.source), 0>>
             /\ fnOut.diagnostics[1].end = <<RefAnchor(fnIn.source) + 1, 0>>
        ELSE fnOut.diagnostics = <<>>

\* two matching stderr lines, the first import on the third line
C4_Witness ==
    /\ fnOut.done
    /\ fnIn.output =
           Unlines(<<<<"ERROR", ":", "a.py", "Imports are incorrectly sorted">>,
                     <<"ERROR", ":", "a.py", "Imports are incorrectly sorted">>>>)
    /\ fnIn.source = Unlines(<<<<"x">>, <<SP, "import", "a">>, <<"from", "b">>>>)
    /\ Len(fnOut.diagnostics) = 1
    /\ fnOut.diagnostics[1].start = <<2, 0>>


(***************************************************************************)
(* Code actions                                                            *)
(***************************************************************************)
EventRequest == last.request

\* what the edit builder makes of the run the handled event made
EventEdit ==
    _formatting_helper(EventDocument,
                       [ret |-> last.ret, result |-> last.result])

EventIsStdlib == is_stdlib_file(_get_document_path(EventDocument))

\* `only` is exactly [source.organizeImports]
RefExactlyOrganizeImports(only) ==
    only.present /\ only.kinds = <<SourceOrganizeImports>>

RefOnlyEmpty(only) == ~only.present \/ only.kinds = <<>>

RefOrganizeEligible(only) ==
    RefOnlyEmpty(only)
    \/ \E i \in 1..Len(only.kinds) : only.kinds[i] = SourceOrganizeImports

RefMatching(diagnostics) ==
    SelectSeq(diagnostics, LAMBDA d : d.source = "isort" /\ d.code = "E")

RefQuickFixEligible(only, diagnostics) ==
    /\ RefOnlyEmpty(only)
       \/ \E i \in 1..Len(only.kinds) : only.kinds[i] = QuickFix
    /\ RefMatching(diagnostics) # <<>>

Clear(uri) == <<[uri |-> uri, diagnostics |-> <<>>]>>

\* an organize-imports action for the document that has no edit
IsOrganizeStub(action, uri) ==
    /\ action.kind = SourceOrganizeImports
    /\ action.data = uri
    /\ action.edit = <<>>
    /\ action.diagnostics = <<>>

\* C5 as stated: on a non-standard-library document and `only` exactly
\* [source.organizeImports], the response is a single organize-imports action
\* whose edit is populated.
C5_EagerAlwaysCarriesEdit ==
    /\ last.handler = "code_action"
    /\ ~EventIsStdlib
    /\ RefExactlyOrganizeImports(EventRequest.only)
    => /\ last.response.kind = "list"
       /\ Len(last.response.actions) = 1
       /\ last.response.actions[1].kind = SourceOrganizeImports
       /\ last.response.actions[1].edit # <<>>

\* C5: on a non-standard-library document and `only` exactly
\* [source.organizeImports], the handler makes one formatting run; when the
\* run yields a changing edit the response is a single organize-imports
\* action carrying that edit inline, when it yields none the response is a
\* single organize-imports stub without an edit, and when the dispatch
\* raises there is no response.
C5_EagerCarriesEditWhenChanged ==
    /\ last.handler = "code_action"
    /\ ~EventIsStdlib
    /\ RefExactlyOrganizeImports(EventRequest.only)
    => IF last.ret = "raise" THEN last.response.kind = "error"
       ELSE /\ last.response.kind = "list"
            /\ Len(last.response.actions) = 1
            /\ last.response.actions[1].kind = SourceOrganizeImports
            /\ last.response.actions[1].data = last.uri
            /\ last.response.actions[1].diagnostics = <<>>
            /\ last.response.actions[1].edit =
                   IF EventEdit # <<>>
                   THEN <<[uri |-> last.uri,
                           version |-> EventDocument.version,
                           edits |-> EventEdit]>>
                   ELSE <<>>

\* the eager request on an unsorted document: the action carries the edit
C5_Witness ==
    /\ last.handler = "code_action"
    /\ last.uri = UriA
    /\ RefExactlyOrganizeImports(EventRequest.only)
    /\ last.result.stdout = SORTED_OUT
    /\ last.response.kind = "list"
    /\ last.response.actions[1].edit # <<>>
    /\ last.response.actions[1].edit[1].edits[1].new_text = SORTED_OUT

\* the actions the stub rules give for a request
RefStubsMatch(actions, uri, only, diagnostics) ==
    LET organize == IF RefOrganizeEligible(only) THEN 1 ELSE 0
        quickfix == IF RefQuickFixEligible(only, diagnostics) THEN 1 ELSE 0
    IN /\ Len(actions) = organize + quickfix
       /\ organize = 1 => IsOrganizeStub(actions[1], uri)
       /\ quickfix = 1 =>
             /\ actions[organize + 1].kind = QuickFix
             /\ actions[organize + 1].data = uri
             /\ actions[organize + 1].edit = <<>>
             /\ actions[organize + 1].diagnostics = RefMatching(diagnostics)

C7_NullIffNoneEligible ==
    last.handler = "code_action" /\ last.response.kind # "error" =>
        /\ last.response.kind \in {"null", "list"}
        /\ last.response.kind = "list" => last.response.actions # <<>>
        /\ last.response.kind = "null" => last.response.actions = <<>>
        /\ last.response.kind = "null" <=>
              \/ EventIsStdlib
              \/ /\ ~RefOrganizeEligible(EventRequest.only)
                 /\ ~RefQuickFixEligible(EventRequest.only,
                                         EventRequest.diagnostics)

\* a filter that names the quick fix only, with no matching diagnostic
C7_Witness ==
    /\ last.handler = "code_action"
    /\ last.uri = UriA
    /\ EventRequest.only = [present |-> TRUE, kinds |-> <<QuickFix>>]
    /\ EventRequest.diagnostics = <<PylintE>>
    /\ last.response.kind = "null"

\* the whole-document edit that keeps the original text
RefOriginalTextEdit(document) ==
    [uri |-> document.uri, version |-> document.version,
     edits |-> <<[start |-> <<0, 0>>,
                  end |-> <<Len(splitlines(document.source, TRUE)), 0>>,
                  new_text |-> document.source]>>]

HasErrorMarker(stderr) ==
    stderr # <<>> /\ \E i \in 1..Len(stderr) : stderr[i] = "ERROR"

\* the ways the edit computation can fail: the tool reports an error on
\* stderr, the RPC returns an exception, the channel call raises
EditComputationFailed ==
    \/ last.ret = "raise"
    \/ last.ret = "result" /\ HasErrorMarker(last.out.stderr)
    \/ last.ret = "result" /\ last.out.exception # <<>>

ReturnsOriginalText ==
    /\ last.response.kind = "action"
    /\ Len(last.response.actions) = 1
    /\ last.response.actions[1].edit = <<RefOriginalTextEdit(EventDocument)>>

DiagnosticsUntouched ==
    /\ last.pubs = <<>>
    /\ published[last.uri] = last.before

C9_ClearIffEdit ==
    last.handler \in {"code_action", "code_action_resolve"} =>
        /\ last.pubs = Clear(last.uri) <=> EventEdit # <<>>
        /\ EventEdit = <<>> => last.pubs = <<>>
        /\ EventEdit # <<>> =>
              published[last.uri] = [set |-> TRUE, diagnostics |-> <<>>]
        /\ EventEdit = <<>> => published[last.uri] = last.before

\* a resolve whose run changes the document clears its diagnostic
C9_Witness ==
    /\ last.handler = "code_action_resolve"
    /\ last.uri = UriA
    /\ last.before.diagnostics # <<>>
    /\ EventEdit # <<>>
    /\ last.pubs = Clear(UriA)
    /\ published[UriA] = [set |-> TRUE, diagnostics |-> <<>>]

\* C10: a formatting run whose stderr is non-empty and contains the error
\* marker yields no edit, whatever is on stdout.
C10_NoEditOnToolError ==
    /\ last.handler \in {"code_action", "code_action_resolve"}
    /\ last.ret = "result"
    /\ HasErrorMarker(last.result.stderr)
    => EventEdit = <<>> /\ last.pubs = <<>>


(***************************************************************************)
(* The edit builder as a function of the document and of the tool          *)
(***************************************************************************)
MaxEditLines == 2

EditLineChoices == {<<"import", "a">>, <<"import", "b">>, <<>>}

Terminators == {<<LF>>, <<CR, LF>>}

\* texts of up to MaxEditLines lines, each line ended by \n or \r\n, the
\* last one possibly not ended
EditSources ==
    UNION {{Concat([i \in 1..n |-> l[i][1] \o l[i][2]]) :
               l \in {m \in [1..n -> EditLineChoices
                                      \X (Terminators \cup {<<>>})] :
                         \A i \in 1..n : m[i][2] = <<>> =>
                                            i = n /\ m[i][1] # <<>>}} :
           n \in 0..MaxEditLines}

\* the imports first, in order, then the other lines as they come
SortedLines(lines) ==
    SelectSeq(lines, LAMBDA l : l = <<"import", "a">>)
    \o SelectSeq(lines, LAMBDA l : l = <<"import", "b">>)
    \o SelectSeq(lines, LAMBDA l : l \notin {<<"import", "a">>,
                                             <<"import", "b">>})

ToolKinds == {"keep", "newline", "sorted", "sorted_crlf", "nothing"}

\* what the external tool writes to stdout for the source it is sent; each
\* kind is a deterministic function
Tool(kind, source) ==
    CASE kind = "keep" -> source
      [] kind = "newline" ->
            IF source = <<>> \/ EndsWith(source, <<LF>>) THEN source
            ELSE source \o <<LF>>
      [] kind = "sorted" ->
            Concat([i \in 1..Len(splitlines(source, FALSE)) |->
                      SortedLines(splitlines(source, FALSE))[i] \o <<LF>>])
      [] kind = "sorted_crlf" ->
            Concat([i \in 1..Len(splitlines(source, FALSE)) |->
                      SortedLines(splitlines(source, FALSE))[i]
                      \o <<CR, LF>>])
      [] OTHER -> <<>>

EditInputs ==
    {[uri |-> u, source |-> t, tool |-> k] :
        u \in {UriA, UriCell}, t \in EditSources, k \in ToolKinds}

EditDocument(uri, source) ==
    [get_text_document(uri) EXCEPT !.source = source]

\* the formatting run on the document, the tool answering the source that
\* the dispatcher sends it (line 711)
EditRun(document, kind) ==
    _run_tool_on_document(
        CheckedWorkspace, <<>>, document, TRUE, <<>>,
        [NoOutcome EXCEPT
            !.kind = "ok",
            !.stdout = Tool(kind, Replace(document.source, <<CR, LF>>,
                                          <<LF>>))])

\* the document after the client applied the whole-document edit
ApplyEdit(document, edits) ==
    IF edits = <<>> THEN document
    ELSE [document EXCEPT !.source = edits[1].new_text]

EditInit ==
    /\ initialized = TRUE
    /\ WORKSPACE_SETTINGS = CheckedWorkspace
    /\ GLOBAL_SETTINGS = <<>>
    /\ published = [u \in Uris |-> Unset]
    /\ firstArgv = [u \in Uris |-> <<>>]
    /\ editor_uri = UriA
    /\ last = Idle
    /\ fnIn \in EditInputs
    /\ fnOut = NoOutput
    /\ inbox = <<>>
    /\ wire = <<>>

\* _formatting_helper on the document, and once more on the document the
\* first edit leaves
EditStep ==
    /\ ~fnOut.done
    /\ \E document \in {EditDocument(fnIn.uri, fnIn.source)} :
       \E run \in {EditRun(document, fnIn.tool)} :
       \E first \in {_formatting_helper(document, run)} :
       \E after \in {ApplyEdit(document, first)} :
       \E second \in {_formatting_helper(after,
                                         EditRun(after, fnIn.tool))} :
          fnOut' = [done |-> TRUE, ret |-> run.ret,
                    stdout |-> run.result.stdout,
                    first |-> first, second |-> second]
    /\ UNCHANGED <<initialized, WORKSPACE_SETTINGS, GLOBAL_SETTINGS,
                   published, firstArgv, editor_uri, last, fnIn,
                   inbox, wire>>

SpecEdit == EditInit /\ [][EditStep]_vars

\* the tool is idempotent on the source it was sent
ToolIsIdempotent(kind, source) ==
    LET sent == Replace(source, <<CR, LF>>, <<LF>>)
        again == Replace(Tool(kind, sent), <<CR, LF>>, <<LF>>)
    IN Tool(kind, again) = Tool(kind, sent)

\* C11: with a deterministic tool that is idempotent on the LF-normalised
\* source, the edit builder run on the text its own edit leaves yields no
\* edit, and it never returns an edit whose new text is the current source.
C11_EditBuilderIdempotent ==
    fnOut.done /\ fnOut.first # <<>>
    /\ ToolIsIdempotent(fnIn.tool, fnIn.source)
    => /\ fnOut.second = <<>>
       /\ fnOut.first[1].new_text # fnIn.source


\* the terminators of the text: what follows each line's content
RECURSIVE LineTerminators(_)
LineTerminators(text) ==
    IF text = <<>> THEN {}
    ELSE IF Len(text) >= 2 /\ text[1] = CR /\ text[2] = LF
         THEN {<<CR, LF>>} \cup LineTerminators(SubSeq(text, 3, Len(text)))
         ELSE IF Head(text) \in {CR, LF}
              THEN {<<Head(text)>>} \cup LineTerminators(Tail(text))
              ELSE LineTerminators(Tail(text))

\* \r\r\n somewhere in the text
HasDoubledCR(text) ==
    \E i \in 1..(Len(text) - 2) :
        text[i] = CR /\ text[i + 1] = CR /\ text[i + 2] = LF

\* C12: for a document whose line endings are \r\n every line terminator of
\* the new text of the edit is \r\n, with no bare \n and no doubled \r, also
\* when the tool writes \n; for a document whose line endings are \n the new
\* text contains no \r\n.  The tool writes all its lines with one terminator.
C12_EditKeepsDocumentLineEndings ==
    fnOut.done /\ fnOut.first # <<>> =>
        /\ LineTerminators(fnIn.source) = {<<CR, LF>>} =>
              /\ LineTerminators(fnOut.first[1].new_text) \subseteq {<<CR, LF>>}
              /\ ~HasDoubledCR(fnOut.first[1].new_text)
        /\ LineTerminators(fnIn.source) = {<<LF>>} =>
              LineTerminators(fnOut.first[1].new_text) \subseteq {<<LF>>}

\* a \r\n document whose tool writes \n: the edit is in \r\n
C12_Witness ==
    /\ fnOut.done
    /\ fnIn.uri = UriA
    /\ fnIn.source = <<"import", "b", CR, LF, "import", "a", CR, LF>>
    /\ fnOut.stdout = <<"import", "a", LF, "import", "b", LF>>
    /\ fnOut.first # <<>>
    /\ fnOut.first[1].new_text =
           <<"import", "a", CR, LF, "import", "b", CR, LF>>

EndsWithTerminator(text) == text # <<>> /\ text[Len(text)] = LF

\* C13 as stated: the new text of an edit for a notebook cell never ends
\* with a line terminator, whatever the tool wrote; for other documents the
\* trailing terminator of the tool's output is kept.
C13_CellEditNeverEndsWithTerminator ==
    fnOut.done /\ fnOut.first # <<>> =>
        IF fnIn.uri.scheme = "vscode-notebook-cell"
        THEN ~EndsWithTerminator(fnOut.first[1].new_text)
        ELSE EndsWithTerminator(fnOut.stdout) <=>
                 EndsWithTerminator(fnOut.first[1].new_text)

\* C13: for a notebook cell the new text of the edit is the reconciled tool
\* output without exactly one trailing line terminator (\r\n or \n), so it
\* ends with a terminator exactly when the output ended with two or more;
\* for other documents the new text is the reconciled output, trailing
\* terminator kept.
C13_CellEditStripsOneTerminator ==
    fnOut.done /\ fnOut.first # <<>> =>
        LET reconciled ==
                _match_line_endings(EditDocument(fnIn.uri, fnIn.source),
                                    fnOut.stdout)
            new_text == fnOut.first[1].new_text
        IN IF fnIn.uri.scheme = "vscode-notebook-cell"
           THEN /\ EndsWithTerminator(reconciled) =>
                      /\ \/ new_text \o <<CR, LF>> = reconciled
                         \/ /\ new_text \o <<LF>> = reconciled
                            /\ ~EndsWith(reconciled, <<CR, LF>>)
                      /\ EndsWithTerminator(new_text) <=>
                            \E t \in Terminators, u \in Terminators :
                                EndsWith(reconciled, t \o u)
                /\ ~EndsWithTerminator(reconciled) => new_text = reconciled
           ELSE /\ new_text = reconciled
                /\ EndsWithTerminator(fnOut.stdout) <=>
                       EndsWithTerminator(new_text)

\* a cell whose tool appended a terminator: the edit does not end with one
C13_Witness ==
    /\ fnOut.done
    /\ fnIn.uri = UriCell
    /\ fnIn.source = <<"import", "b", LF, "import", "a">>
    /\ fnOut.stdout = <<"import", "a", LF, "import", "b", LF>>
    /\ fnOut.first # <<>>
    /\ fnOut.first[1].new_text = <<"import", "a", LF, "import", "b">>


(***************************************************************************)
(* get_cwd.  A cwd template is a text; a token is the text of its name,    *)
(* "${file" and "${relativeFile" being the parts the tokens share          *)
(***************************************************************************)
TokFile == <<"${file", "}">>
TokFileBasename == <<"${file", "Basename", "}">>
TokFileBasenameNoExtension == <<"${file", "Basename", "NoExtension", "}">>
TokFileExtname == <<"${file", "Extname", "}">>
TokFileDirname == <<"${file", "Dirname", "}">>
TokFileDirnameBasename == <<"${file", "Dirname", "Basename", "}">>
TokRelativeFile == <<"${relativeFile", "}">>
TokRelativeFileDirname == <<"${relativeFile", "Dirname", "}">>
TokFileWorkspaceFolder == <<"${file", "WorkspaceFolder", "}">>

\* os.path.splitext of a file name: the stem and the extension
NameText(name) ==
    CASE name = "foo.py" -> <<"foo", ".py">>
      [] name = "a.py" -> <<"a", ".py">>
      [] name = "o.py" -> <<"o", ".py">>
      [] name = "nb.ipynb" -> <<"nb", ".ipynb">>
      [] OTHER -> <<name>>

\* the text of a relative path: the components joined by "/"
RECURSIVE RelText(_)
RelText(p) ==
    IF p = <<>> THEN <<>>
    ELSE IF Len(p) = 1 THEN NameText(p[1])
         ELSE NameText(p[1]) \o <<"/">> \o RelText(Tail(p))

\* the text of an absolute path
PathText(p) == <<"/">> \o RelText(p)

\* os.path.basename / os.path.splitext
basename(p) == IF p = <<>> THEN <<>> ELSE NameText(p[Len(p)])

splitext(name) ==
    IF Len(name) >= 2 THEN <<SubSeq(name, 1, Len(name) - 1),
                              <<name[Len(name)]>>>>
    ELSE <<name, <<>>>>

RECURSIVE CommonPrefixLen(_, _)
CommonPrefixLen(p, q) ==
    IF p = <<>> \/ q = <<>> \/ Head(p) # Head(q) THEN 0
    ELSE 1 + CommonPrefixLen(Tail(p), Tail(q))

\* os.path.relpath(path, start) for absolute paths
relpath(p, start) ==
    LET k == CommonPrefixLen(p, start)
        rel == [i \in 1..(Len(start) - k) |-> ".."]
               \o SubSeq(p, k + 1, Len(p))
    IN IF rel = <<>> THEN <<".">> ELSE RelText(rel)

\* a token that is cut before its closing brace
SubstitutionsOpenFile(file_path, workspace_fs) ==
    <<<<<<"${file">>, PathText(file_path)>>,
      <<TokFileBasename, basename(file_path)>>,
      <<TokFileBasenameNoExtension, splitext(basename(file_path))[1]>>,
      <<TokFileExtname, splitext(basename(file_path))[2]>>,
      <<TokFileDirname, PathText(dirname(file_path))>>,
      <<TokFileDirnameBasename, basename(dirname(file_path))>>,
      <<TokRelativeFile, relpath(file_path, workspace_fs)>>,
      <<TokRelativeFileDirname, relpath(dirname(file_path), workspace_fs)>>,
      <<TokFileWorkspaceFolder, PathText(workspace_fs)>>>>

\* lines 632-642: the tokens and their values, in the order of the dict
Substitutions(file_path, workspace_fs) ==
    <<<<TokFile, PathText(file_path)>>,
      <<TokFileBasename, basename(file_path)>>,
      <<TokFileBasenameNoExtension, splitext(basename(file_path))[1]>>,
      <<TokFileExtname, splitext(basename(file_path))[2]>>,
      <<TokFileDirname, PathText(dirname(file_path))>>,
      <<TokFileDirnameBasename, basename(dirname(file_path))>>,
      <<TokRelativeFile, relpath(file_path, workspace_fs)>>,
      <<TokRelativeFileDirname, relpath(dirname(file_path), workspace_fs)>>,
      <<TokFileWorkspaceFolder, PathText(workspace_fs)>>>>

\* lines 644-645: for token, value in substitutions.items()
RECURSIVE ReplaceEach(_, _)
ReplaceEach(cwd, substitutions) ==
    IF substitutions = <<>> THEN cwd
    ELSE ReplaceEach(Replace(cwd, Head(substitutions)[1],
                             Head(substitutions)[2]),
                     Tail(substitutions))

\* only the tokens that start with ${file are looked for
HasFileVariableOnly(cwd) == Find(cwd, <<"${file">>) >= 0

\* line 649: "${file" in cwd or "${relativeFile" in cwd
HasFileVariable(cwd) ==
    Find(cwd, <<"${file">>) >= 0 \/ Find(cwd, <<"${relativeFile">>) >= 0

\* settings.cwd is the template when configured; os.path.relpath raises
\* ValueError on an empty path
get_cwd(settings, document) ==
    LET cwd == Get(settings, "cwd", PathText(settings.workspaceFS))
        workspace_fs == settings.workspaceFS
    IN IF document # NoDocument
       THEN IF _get_document_path(document) = <<>>
            THEN [kind |-> "raise", cwd |-> <<>>]
            ELSE [kind |-> "ok",
                  cwd |-> ReplaceEach(cwd,
                              Substitutions(_get_document_path(document),
                                            workspace_fs))]
       ELSE [kind |-> "ok",
             cwd |-> IF HasFileVariable(cwd) THEN PathText(workspace_fs)
                     ELSE cwd]

MaxTemplateParts == 2

TemplateTokens ==
    {TokFile, TokFileBasename, TokFileBasenameNoExtension, TokFileExtname,
     TokFileDirname, TokFileDirnameBasename, TokRelativeFile,
     TokRelativeFileDirname, TokFileWorkspaceFolder}

TemplateParts == TemplateTokens \cup {<<"/">>, <<"x">>}

UriFoo ==
    [scheme |-> "file", path |-> <<"ws", "src", "foo.py">>, fragment |-> ""]

\* a document object whose path is the empty string
UriEmptyPath == [scheme |-> "file", path |-> <<>>, fragment |-> ""]

CwdDocuments ==
    {NoDocument}
    \cup {[uri |-> u, path |-> u.path, source |-> <<>>, version |-> 1] :
             u \in {UriFoo, UriCell, UriEmptyPath}}

CwdInputs ==
    {[parts |-> t, configured |-> c, workspaceFS |-> w, document |-> d] :
        t \in SeqsUpTo(TemplateParts, MaxTemplateParts), c \in BOOLEAN,
        w \in {<<"ws">>, <<"ws", "lib">>}, d \in CwdDocuments}

CwdSettings(in) ==
    IF in.configured
    THEN [cwd |-> Concat(in.parts), workspaceFS |-> in.workspaceFS]
    ELSE [workspaceFS |-> in.workspaceFS]

CwdInit ==
    /\ initialized = TRUE
    /\ WORKSPACE_SETTINGS = CheckedWorkspace
    /\ GLOBAL_SETTINGS = <<>>
    /\ published = [u \in Uris |-> Unset]
    /\ firstArgv = [u \in Uris |-> <<>>]
    /\ editor_uri = UriA
    /\ last = Idle
    /\ fnIn \in {in \in CwdInputs : in.configured \/ in.parts = <<>>}
    /\ fnOut = NoOutput
    /\ inbox = <<>>
    /\ wire = <<>>

CwdStep ==
    /\ ~fnOut.done
    /\ \E r \in {get_cwd(CwdSettings(fnIn), fnIn.document)} :
          fnOut' = [done |-> TRUE, kind |-> r.kind, cwd |-> r.cwd]
    /\ UNCHANGED <<initialized, WORKSPACE_SETTINGS, GLOBAL_SETTINGS,
                   published, firstArgv, editor_uri, last, fnIn,
                   inbox, wire>>

SpecCwd == CwdInit /\ [][CwdStep]_vars


\* the value a part of the template stands for: a token's value for the
\* document path p and the workspace root w, any other part itself
RefPartValue(part, p, w) ==
    CASE part = TokFile -> PathText(p)
      [] part = TokFileBasename -> NameText(p[Len(p)])
      [] part = TokFileBasenameNoExtension -> <<NameText(p[Len(p)])[1]>>
      [] part = TokFileExtname -> Tail(NameText(p[Len(p)]))
      [] part = TokFileDirname -> PathText(SubSeq(p, 1, Len(p) - 1))
      [] part = TokFileDirnameBasename -> <<p[Len(p) - 1]>>
      [] part = TokRelativeFile -> relpath(p, w)
      [] part = TokRelativeFileDirname ->
            relpath(SubSeq(p, 1, Len(p) - 1), w)
      [] part = TokFileWorkspaceFolder -> PathText(w)
      [] OTHER -> part

CwdTemplateHasToken ==
    \E i \in 1..Len(fnIn.parts) : fnIn.parts[i] \in TemplateTokens

\* C14: with a document that has a path, get_cwd returns the template with
\* every occurrence of each of the nine tokens replaced by its value for the
\* document and the workspace, in any combination and order; a template
\* without tokens comes back unchanged and no replacement touches a longer
\* token.
C14_EveryTokenReplaced ==
    fnOut.done /\ fnIn.document # NoDocument /\ fnIn.document.path # <<>>
    /\ fnIn.configured =>
        /\ fnOut.kind = "ok"
        /\ fnOut.cwd =
               Concat([i \in 1..Len(fnIn.parts) |->
                         RefPartValue(fnIn.parts[i],
                                      fnIn.document.uri.path,
                                      fnIn.workspaceFS)])

\* /ws/src/foo.py seen from the workspace /ws/lib
C14_Witness ==
    /\ fnOut.done
    /\ fnIn.document.uri = UriFoo
    /\ fnIn.workspaceFS = <<"ws", "lib">>
    /\ fnIn.configured
    /\ fnIn.parts = <<TokRelativeFile, TokFileDirnameBasename>>
    /\ fnOut.cwd = <<"..", "/", "src", "/", "foo", ".py", "src">>

\* C15: with no document, get_cwd returns the workspace root when no cwd is
\* configured, a template without tokens verbatim, and exactly the workspace
\* root for a template that contains any of the nine tokens.
C15_NoDocumentFallsBack ==
    fnOut.done /\ fnIn.document = NoDocument =>
        /\ fnOut.kind = "ok"
        /\ fnOut.cwd =
               IF ~fnIn.configured \/ CwdTemplateHasToken
               THEN PathText(fnIn.workspaceFS)
               ELSE Concat(fnIn.parts)

\* a template with a token and more text, no document
C15_Witness ==
    /\ fnOut.done
    /\ fnIn.document = NoDocument
    /\ fnIn.configured
    /\ fnIn.workspaceFS = <<"ws">>
    /\ fnIn.parts = <<TokRelativeFileDirname, <<"x">>>>
    /\ fnOut.cwd = <<"/", "ws">>

\* C16: a document whose path is empty is treated like no document: for a
\* template with a document-dependent token get_cwd returns the workspace
\* root.
C16_EmptyPathLikeNoDocument ==
    fnOut.done /\ fnIn.document # NoDocument /\ fnIn.document.path = <<>>
    /\ fnIn.configured /\ CwdTemplateHasToken =>
        /\ fnOut.kind = "ok"
        /\ fnOut.cwd = PathText(fnIn.workspaceFS)


(***************************************************************************)
(* Settings resolution as a function of the registry and of the document   *)
(***************************************************************************)
\* lines 549-559
_get_settings_by_path(W, file_path) ==
    IF WalkUp(file_path, WorkspaceRoots(W)) # <<"None">>
    THEN DictGet(W, WalkUp(file_path, WorkspaceRoots(W)))
    ELSE DictValues(W)[1]

\* format_server._update_workspace_settings, lines 73-79
RECURSIVE format_server_update_workspace_settings(_, _)
format_server_update_workspace_settings(W, settings) ==
    IF settings = <<>> THEN W
    ELSE format_server_update_workspace_settings(
             DictSet(W, to_fs_path(Head(settings).workspace),
                     [Head(settings) EXCEPT
                         !.workspaceFS = to_fs_path(Head(settings).workspace)]),
             Tail(settings))

\* the walk of format_server lines 89-92: it stops at a registered path or
\* at the filesystem root
RECURSIVE format_server_walk(_, _)
format_server_walk(p, workspaces) ==
    IF p = <<>> \/ p \in workspaces THEN p
    ELSE format_server_walk(dirname(p), workspaces)

\* format_server._get_settings_by_document, lines 82-94; the subscript
\* raises KeyError when the walk ends on an unregistered path
format_server_get_settings_by_document(W, document) ==
    IF Len(W) = 1 THEN [kind |-> "ok", settings |-> DictValues(W)[1]]
    ELSE IF DictHas(W, format_server_walk(document.path, WorkspaceRoots(W)))
         THEN [kind |-> "ok",
               settings |->
                   DictGet(W, format_server_walk(document.path,
                                                 WorkspaceRoots(W)))]
         ELSE [kind |-> "raise", settings |-> <<>>]

\* the roots a client can register: /, /ws, /ws/src, /lib
RootChoices == <<<<>>, <<"ws">>, <<"ws", "src">>, <<"lib">>>>

RECURSIVE Masked(_, _)
Masked(q, mask) ==
    IF q = <<>> THEN <<>>
    ELSE (IF Head(mask) THEN <<Head(q)>> ELSE <<>>)
         \o Masked(Tail(q), Tail(mask))

RootLists ==
    {Masked(RootChoices, mask) : mask \in [1..Len(RootChoices) -> BOOLEAN]}

RootSettings(roots) ==
    [i \in 1..Len(roots) |->
        ClientSetting(roots[i], <<>>, <<>>, <<Str("--root"), roots[i]>>,
                      TRUE)]

DocumentPathChoices ==
    {<<"ws", "src", "foo.py">>, <<"ws", "a.py">>, <<"ws", "src">>,
     <<"libx", "a.py">>, <<"tmp", "o.py">>}

SettingsInputs ==
    {[roots |-> r, path |-> p, globals |-> g] :
        r \in RootLists, p \in DocumentPathChoices, g \in GlobalChoices}

SettingsInit ==
    /\ initialized = TRUE
    /\ \E in \in SettingsInputs :
          /\ fnIn = in
          /\ GLOBAL_SETTINGS = in.globals
          /\ WORKSPACE_SETTINGS =
                 _update_workspace_settings(<<>>, in.globals,
                                            RootSettings(in.roots))
    /\ published = [u \in Uris |-> Unset]
    /\ firstArgv = [u \in Uris |-> <<>>]
    /\ editor_uri = UriA
    /\ last = Idle
    /\ fnOut = NoOutput
    /\ inbox = <<>>
    /\ wire = <<>>

SettingsDocument(path) ==
    [uri |-> from_fs_path(path), path |-> path, source |-> <<>>,
     version |-> 1]

SettingsStep ==
    /\ ~fnOut.done
    /\ \E document \in {SettingsDocument(fnIn.path)} :
          fnOut' =
              [done |-> TRUE,
               settings |->
                   _get_settings_by_document(WORKSPACE_SETTINGS,
                                             GLOBAL_SETTINGS, document),
               by_path |->
                   _get_settings_by_path(WORKSPACE_SETTINGS, fnIn.path),
               legacy |->
                   format_server_get_settings_by_document(
                       format_server_update_workspace_settings(
                           <<>>, RootSettings(fnIn.roots)),
                       document)]
    /\ UNCHANGED <<initialized, WORKSPACE_SETTINGS, GLOBAL_SETTINGS,
                   published, firstArgv, editor_uri, last, fnIn,
                   inbox, wire>>

SpecSettings == SettingsInit /\ [][SettingsStep]_vars

\* root is the path or one of its ancestors
Encloses(root, path) ==
    Len(root) <= Len(path) /\ SubSeq(path, 1, Len(root)) = root

RegisteredRoots ==
    {WORKSPACE_SETTINGS[i][1] : i \in 1..Len(WORKSPACE_SETTINGS)}

EnclosingRoots == {r \in RegisteredRoots : Encloses(r, fnIn.path)}

DeepestEnclosingRoot ==
    CHOOSE r \in EnclosingRoots : \A q \in EnclosingRoots : Len(q) <= Len(r)

SettingsOfRoot(root) ==
    WORKSPACE_SETTINGS[CHOOSE i \in 1..Len(WORKSPACE_SETTINGS) :
                           WORKSPACE_SETTINGS[i][1] = root][2]

\* C17: whenever a registered root is the document path or one of its
\* ancestors, settings resolution returns the settings of the deepest such
\* root, never those of a root that does not enclose the path.
C17_DeepestEnclosingRoot ==
    fnOut.done /\ EnclosingRoots # {} =>
        /\ fnOut.settings = SettingsOfRoot(DeepestEnclosingRoot)
        /\ fnOut.by_path = SettingsOfRoot(DeepestEnclosingRoot)

\* the global defaults, field by field
RefGlobalDefault(key, default) ==
    IF key \in DOMAIN GLOBAL_SETTINGS THEN GLOBAL_SETTINGS[key] ELSE default

RefSynthesized(parent) ==
    [cwd |-> parent, workspaceFS |-> parent,
     workspace |-> [scheme |-> "file", path |-> parent, fragment |-> ""],
     check |-> RefGlobalDefault("check", FALSE),
     path |-> RefGlobalDefault("path", <<>>),
     severity |-> RefGlobalDefault("severity",
                                   [E |-> "Hint", W |-> "Warning"]),
     interpreter |-> RefGlobalDefault("interpreter", <<sys_executable>>),
     args |-> RefGlobalDefault("args", <<>>),
     importStrategy |-> RefGlobalDefault("importStrategy", "useBundled"),
     showNotifications |-> RefGlobalDefault("showNotifications", "off")]

ParentOfDocument == SubSeq(fnIn.path, 1, Len(fnIn.path) - 1)

\* C18 as stated: when no registered root encloses the path, the settings
\* of the single registered workspace are used if exactly one is registered,
\* and synthesized settings otherwise.
C18_SingleWorkspaceElseSynthesized ==
    fnOut.done /\ EnclosingRoots = {} =>
        fnOut.settings =
            IF Len(WORKSPACE_SETTINGS) = 1 THEN WORKSPACE_SETTINGS[1][2]
            ELSE RefSynthesized(ParentOfDocument)

\* C18: when no registered root encloses the document's path, the language
\* server synthesizes settings with the document's parent directory as root
\* and cwd and the global defaults for every other field, however many
\* workspaces are registered; the legacy formatter returns the settings of
\* the single workspace when exactly one is registered and has no
\* synthesized fallback.
C18_SynthesizedWhenNotEnclosed ==
    fnOut.done /\ EnclosingRoots = {} =>
        /\ fnOut.settings = RefSynthesized(ParentOfDocument)
        /\ Len(fnIn.roots) = 1 =>
              /\ fnOut.legacy.kind = "ok"
              /\ fnOut.legacy.settings.workspaceFS = fnIn.roots[1]
        /\ Len(fnIn.roots) # 1 => fnOut.legacy.kind = "raise"

\* one workspace, /ws, and a document outside it
C18_Witness ==
    /\ fnOut.done
    /\ fnIn.roots = <<<<"ws">>>>
    /\ fnIn.path = <<"tmp", "o.py">>
    /\ fnOut.settings.workspaceFS = <<"tmp">>
    /\ fnOut.settings.cwd = <<"tmp">>
    /\ fnOut.settings.args = <<>>
    /\ fnOut.legacy.settings.workspaceFS = <<"ws">>


(***************************************************************************)
(* Precondition skips                                                      *)
(***************************************************************************)
\* the documents that fail a precondition: os.py of the standard library,
\* the interactive window, and bad.py, whose last line is no Python
SkippedDocuments == {UriStd, UriInteractive, UriBad}

\* C19: for a standard-library file, a path ending with ".interactive" or a
\* source that does not parse after the magic lines are blanked, the
\* dispatcher returns null and calls no channel; a check of the document
\* publishes the empty list and the edit builder yields no edit.
C19_PreconditionSkips ==
    /\ last.handler \in LintHandlers \cup {"code_action",
                                           "code_action_resolve"}
    /\ last.uri \in SkippedDocuments
    => /\ last.calls = <<>>
       /\ last.ret = "null"
       /\ EventEdit = <<>>
       /\ last.handler \in LintHandlers =>
             /\ last.pubs = Clear(last.uri)
             /\ published[last.uri] = [set |-> TRUE, diagnostics |-> <<>>]
       /\ last.handler \notin LintHandlers => last.pubs = <<>>
       /\ last.handler = "code_action_resolve" => ReturnsOriginalText

\* the check is enabled and the source of bad.py does not parse
C19_Witness ==
    /\ last.handler = "did_open"
    /\ last.uri = UriBad
    /\ "check" \in DOMAIN EventSettings
    /\ EventSettings.check = TRUE
    /\ last.skipped = "not python"
    /\ last.calls = <<>>
    /\ last.pubs = Clear(UriBad)


(***************************************************************************)
(* The order of the publications                                           *)
(*                                                                         *)
(* The client writes notifications to the server's input; start_io reads   *)
(* them in order.  did_open, did_save and did_close are plain functions    *)
(* registered with LSP_SERVER.feature only, so each runs to its end, its   *)
(* publication included, before the next message is read.                  *)
(***************************************************************************)
MaxInbox == 2
MaxEvents == 3

MAX_WORKERS == 5

OrderUris == {UriA, UriCell}

Min(a, b) == IF a < b THEN a ELSE b

\* the handlers run on the threads of the pool: any of the first
\* MAX_WORKERS messages may finish first
RunnableOnWorkers(box) == 1..Min(Len(box), MAX_WORKERS)

\* the positions in the inbox of the messages that may be handled next:
\* the oldest one only
Runnable(box) == 1..Min(Len(box), 1)

RemoveAt(box, i) == [j \in 1..(Len(box) - 1) |->
                        IF j < i THEN box[j] ELSE box[j + 1]]

\* the number of notifications received so far
Received == Len(wire) + Len(inbox)

OrderInit ==
    /\ initialized = TRUE
    /\ WORKSPACE_SETTINGS = CheckedWorkspace
    /\ GLOBAL_SETTINGS = <<>>
    /\ published = [u \in Uris |-> Unset]
    /\ firstArgv = [u \in Uris |-> <<>>]
    /\ editor_uri = UriA
    /\ last = Idle
    /\ fnIn = NoInput
    /\ fnOut = NoOutput
    /\ inbox = <<>>
    /\ wire = <<>>

\* the client sends a notification; it is the arrival-th one
Receive(method, uri) ==
    /\ Len(inbox) < MaxInbox
    /\ Received < MaxEvents
    /\ inbox' = Append(inbox, [method |-> method, uri |-> uri,
                               arrival |-> Received + 1])
    /\ UNCHANGED <<initialized, WORKSPACE_SETTINGS, GLOBAL_SETTINGS,
                   published, firstArgv, editor_uri, last, fnIn, fnOut, wire>>

Written(m, diagnostics) ==
    [uri |-> m.uri, diagnostics |-> diagnostics, method |-> m.method,
     arrival |-> m.arrival]

\* did_open / did_save of a received notification
ServeLint(handler) ==
    \E i \in Runnable(inbox) :
    \E m \in {inbox[i]} :
       /\ m.method = handler
       /\ \E document \in {get_text_document(m.uri)} :
          \E probe \in {_linting_helper(WORKSPACE_SETTINGS, GLOBAL_SETTINGS,
                                        document, NoOutcome).run} :
          \E out \in OutcomesOf(probe, document) :
          \E lh \in {_linting_helper(WORKSPACE_SETTINGS, GLOBAL_SETTINGS,
                                     document, out)} :
             /\ WORKSPACE_SETTINGS' =
                    RegistryAfterRun(WORKSPACE_SETTINGS, GLOBAL_SETTINGS,
                                     document, lh.run)
             /\ published' =
                    Publish(published, <<[uri |-> m.uri,
                                          diagnostics |-> lh.diagnostics]>>)
             /\ wire' = Append(wire, Written(m, lh.diagnostics))
       /\ inbox' = RemoveAt(inbox, i)
       /\ UNCHANGED <<initialized, GLOBAL_SETTINGS, firstArgv, editor_uri,
                      last, fnIn, fnOut>>

\* did_close of a received notification
ServeClose ==
    \E i \in Runnable(inbox) :
    \E m \in {inbox[i]} :
       /\ m.method = "did_close"
       /\ published' = Publish(published, <<[uri |-> m.uri,
                                             diagnostics |-> <<>>]>>)
       /\ wire' = Append(wire, Written(m, <<>>))
       /\ inbox' = RemoveAt(inbox, i)
       /\ UNCHANGED <<initialized, WORKSPACE_SETTINGS, GLOBAL_SETTINGS,
                      firstArgv, editor_uri, last, fnIn, fnOut>>

OrderNext ==
    \/ \E method \in LintHandlers \cup {"did_close"}, u \in OrderUris :
          Receive(method, u)
    \/ ServeLint("did_open")
    \/ ServeLint("did_save")
    \/ ServeClose

SpecOrder == OrderInit /\ [][OrderNext]_vars

\* the positions on the wire of the publications for the URI
WrittenFor(u) == {i \in DOMAIN wire : wire[i].uri = u}

\* C20: the publications for one URI are written in the order in which
\* their notifications were received; a close publishes the empty list, no
\* publication of an earlier open or save of the URI is written after it,
\* and when the close is the last notification handled for the URI the
\* client holds the empty list.
C20_PublicationsInArrivalOrder ==
    \A u \in OrderUris :
       /\ \A i, j \in WrittenFor(u) :
             i < j => wire[i].arrival < wire[j].arrival
       /\ \A i \in WrittenFor(u) :
             wire[i].method = "did_close" =>
                /\ wire[i].diagnostics = <<>>
                /\ \A j \in WrittenFor(u) :
                      wire[j].arrival < wire[i].arrival => j < i
                /\ (\A j \in WrittenFor(u) : j <= i) =>
                      published[u] = [set |-> TRUE, diagnostics |-> <<>>]

\* an open of a.py that reported a sorting error and its close were both
\* waiting; both are handled and the client holds the empty list
C20_Witness ==
    /\ Len(wire) >= 2
    /\ wire[1].uri = UriA /\ wire[1].method = "did_open"
    /\ wire[1].diagnostics # <<>>
    /\ wire[2].uri = UriA /\ wire[2].method = "did_close"
    /\ wire[2].arrival = 2
    /\ published[UriA] = [set |-> TRUE, diagnostics |-> <<>>]

(***************************************************************************)
(* The path of a document                                                  *)
(***************************************************************************)
PathSchemes == {"file", "vscode-notebook-cell", "untitled"}

UriPathChoices ==
    {<<>>, <<"ws", "nb.ipynb">>, <<"ws", "a.py">>, <<"Untitled-1">>}

SuppliedPathChoices ==
    {<<>>, <<"fallback", "path.py">>, <<"ws", "nb.ipynb">>, <<"ws", "a.py">>}

\* document objects whose path need not be the path of their URI
PathInputs ==
    {[uri |-> [scheme |-> s, path |-> p, fragment |-> f], path |-> d,
      source |-> src, version |-> 1] :
        s \in PathSchemes, p \in UriPathChoices, f \in {"", "C00001"},
        d \in SuppliedPathChoices, src \in {<<>>, SrcCell}}

PathInit ==
    /\ initialized = TRUE
    /\ WORKSPACE_SETTINGS = CheckedWorkspace
    /\ GLOBAL_SETTINGS = <<>>
    /\ published = [u \in Uris |-> Unset]
    /\ firstArgv = [u \in Uris |-> <<>>]
    /\ editor_uri = UriA
    /\ last = Idle
    /\ fnIn \in PathInputs
    /\ fnOut = NoOutput
    /\ inbox = <<>>
    /\ wire = <<>>

\* the path, the settings the document resolves to under it and the argv
\* the check builds for it
PathStep ==
    /\ ~fnOut.done
    /\ \E run \in {_run_tool_on_document(WORKSPACE_SETTINGS, GLOBAL_SETTINGS,
                                         fnIn, TRUE, <<Str("--check")>>,
                                         NoOutcome)} :
          fnOut' = [done |-> TRUE,
                    path |-> _get_document_path(fnIn),
                    key |-> _get_document_key(WORKSPACE_SETTINGS, fnIn),
                    argv |-> run.argv]
    /\ UNCHANGED <<initialized, WORKSPACE_SETTINGS, GLOBAL_SETTINGS,
                   published, firstArgv, editor_uri, last, fnIn,
                   inbox, wire>>

SpecPath == PathInit /\ [][PathStep]_vars

\* a path can be derived from the URI
RefPathDerivable(uri) == uri.path # <<>>

\* C21: for a URI that is not a file URI and from which a path can be
\* derived, the path of the document is the path of the URI without its
\* fragment, whatever path the document object carries; the path the
\* document carries is returned only for a file URI or when no path can be
\* derived.  The settings key and the --filename argument follow that path.
C21_NotebookCellPathIsParentNotebook ==
    fnOut.done =>
       /\ (fnIn.uri.scheme # "file" /\ RefPathDerivable(fnIn.uri))
             => fnOut.path = fnIn.uri.path
       /\ (fnIn.uri.scheme = "file" \/ ~RefPathDerivable(fnIn.uri))
             => fnOut.path = fnIn.path
       /\ fnOut.path # fnIn.uri.path
             => (fnIn.uri.scheme = "file" \/ ~RefPathDerivable(fnIn.uri))
       /\ fnOut.argv # <<>> => fnOut.argv[Len(fnOut.argv)] = fnOut.path
       /\ fnOut.key # <<"None">> => StartsWith(fnOut.path, fnOut.key)

\* a notebook cell whose document object carries another path
C21_Witness ==
    /\ fnOut.done
    /\ fnIn.uri = UriCell
    /\ fnIn.path = <<"fallback", "path.py">>
    /\ fnOut.path = <<"ws", "nb.ipynb">>
    /\ fnOut.key = <<"ws">>
    /\ fnOut.argv # <<>>
    /\ fnOut.argv[Len(fnOut.argv)] = <<"ws", "nb.ipynb">>

(***************************************************************************)
(* The settings tables after initialize                                    *)
(***************************************************************************)
TablesUnchanged ==
    /\ WORKSPACE_SETTINGS' = WORKSPACE_SETTINGS
    /\ GLOBAL_SETTINGS' = GLOBAL_SETTINGS

\* the tables are what initialize populates for some parameters
TablesAsPopulated ==
    \E s \in SettingsLists, g \in GlobalChoices :
       /\ GLOBAL_SETTINGS' = DictUpdate(GLOBAL_SETTINGS, g)
       /\ WORKSPACE_SETTINGS' =
              _update_workspace_settings(WORKSPACE_SETTINGS,
                                         GLOBAL_SETTINGS', s)

\* C22: the version and configuration queries of initialize leave the
\* tables as initialize populated them, and no did_open, did_save,
\* did_close, code_action or code_action_resolve changes WORKSPACE_SETTINGS
\* or GLOBAL_SETTINGS afterwards; settings synthesized for a file outside
\* every workspace are not stored.
C22_HandlersKeepSettingsTables ==
    [][/\ initialized => TablesUnchanged
       /\ (~initialized /\ initialized') => TablesAsPopulated]_vars

\* a repeated check under a `path` setting: the registered list is still
\* the configured one, shorter than the argv the call built from it
C22_Witness ==
    /\ last.handler = "did_save"
    /\ last.repeated
    /\ last.calls # <<>>
    /\ last.calls[1].fn = "run_path"
    /\ DictHas(WORKSPACE_SETTINGS, EventSettings.workspaceFS)
    /\ EventSettings.path = last.calls[1].path
    /\ Len(EventSettings.path) < Len(last.argv)

(***************************************************************************)
(* Repeated settings updates                                               *)
(***************************************************************************)
MaxUpdates == 2

RegistryInit ==
    /\ initialized = TRUE
    /\ WORKSPACE_SETTINGS = <<>>
    /\ GLOBAL_SETTINGS = <<>>
    /\ published = [u \in Uris |-> Unset]
    /\ firstArgv = [u \in Uris |-> <<>>]
    /\ editor_uri = UriA
    /\ last = Idle
    /\ fnIn = [roots |-> <<>>, updates |-> 0]
    /\ fnOut = NoOutput
    /\ inbox = <<>>
    /\ wire = <<>>

\* _update_workspace_settings(settings) on the table as it is; the whole
\* loop runs before anything else reads the table
RegistryUpdate(roots) ==
    /\ fnIn.updates < MaxUpdates
    /\ WORKSPACE_SETTINGS' =
           _update_workspace_settings(WORKSPACE_SETTINGS, GLOBAL_SETTINGS,
                                      RootSettings(roots))
    /\ fnIn' = [roots |-> roots, updates |-> fnIn.updates + 1]
    /\ fnOut' = [done |-> TRUE, keys |-> DictKeys(WORKSPACE_SETTINGS')]
    /\ UNCHANGED <<initialized, GLOBAL_SETTINGS, published, firstArgv,
                   editor_uri, last, inbox, wire>>

RegistryNext == \E roots \in RootLists : RegistryUpdate(roots)

SpecRegistry == RegistryInit /\ [][RegistryNext]_vars

\* the normalized roots of the list the last update was given
RefRootsOf(roots) == {normalize_path(roots[i]) : i \in 1..Len(roots)}

\* C23: after _update_workspace_settings(S) with a non-empty S the keys of
\* the registry are exactly the normalized roots of S: no entry of the
\* earlier table survives.
C23_UpdateReplacesWholesale ==
    fnOut.done /\ fnIn.roots # <<>> =>
        RegisteredRoots = RefRootsOf(fnIn.roots)

(***************************************************************************)
(* The source sent to the tool                                             *)
(***************************************************************************)
MaxSourceLines == 2

SourceLineChoices == {<<"import", "a">>, <<"%", "time">>, <<"!", "ls">>}

\* LF, CR LF, a lone CR, and a CR right before CR LF
SourceTerminators == {<<LF>>, <<CR, LF>>, <<CR>>, <<CR, CR, LF>>}

SourceChoices ==
    {Concat(ls) :
        ls \in SeqsUpTo({l \o t : l \in SourceLineChoices,
                                  t \in SourceTerminators},
                        MaxSourceLines)}

\* one workspace /ws per way of running the tool
StrategyRegistries ==
    {_update_workspace_settings(<<>>, <<>>,
         <<ClientSetting(<<"ws">>, p, i, <<>>, TRUE)>>) :
        p \in PathChoices, i \in InterpreterChoices}

SourceInit ==
    /\ initialized = TRUE
    /\ WORKSPACE_SETTINGS \in StrategyRegistries
    /\ GLOBAL_SETTINGS = <<>>
    /\ published = [u \in Uris |-> Unset]
    /\ firstArgv = [u \in Uris |-> <<>>]
    /\ editor_uri = UriA
    /\ last = Idle
    /\ fnIn \in {[source |-> s, use_stdin |-> b] :
                    s \in SourceChoices, b \in BOOLEAN}
    /\ fnOut = NoOutput
    /\ inbox = <<>>
    /\ wire = <<>>

\* _run_tool_on_document for a.py holding the drawn source
SourceStep ==
    /\ ~fnOut.done
    /\ \E document \in {[get_text_document(UriA)
                          EXCEPT !.source = fnIn.source]} :
       \E run \in {_run_tool_on_document(WORKSPACE_SETTINGS, GLOBAL_SETTINGS,
                                         document, fnIn.use_stdin, <<>>,
                                         NoOutcome)} :
          fnOut' = [done |-> TRUE, calls |-> run.calls, argv |-> run.argv]
    /\ UNCHANGED <<initialized, WORKSPACE_SETTINGS, GLOBAL_SETTINGS,
                   published, firstArgv, editor_uri, last, fnIn,
                   inbox, wire>>

SpecSource == SourceInit /\ [][SourceStep]_vars

HasCRLF(t) == \E i \in 1..(Len(t) - 1) : t[i] = CR /\ t[i + 1] = LF

\* the text with every CR dropped that stands right before an LF
RECURSIVE RefDropCRBeforeLF(_)
RefDropCRBeforeLF(t) ==
    IF t = <<>> THEN <<>>
    ELSE IF Len(t) >= 2 /\ t[1] = CR /\ t[2] = LF
         THEN <<LF>> \o RefDropCRBeforeLF(SubSeq(t, 3, Len(t)))
         ELSE <<t[1]>> \o RefDropCRBeforeLF(Tail(t))

\* C24: the source a channel is called with has no CR LF sequence, for
\* every document source, those with a CR right before CR LF included, and
\* it is the document source with each CR LF turned into LF, the magic
\* lines as they are.
C24_SentSourceHasOneLineEnding ==
    fnOut.done /\ fnOut.calls # <<>> =>
        /\ ~HasCRLF(fnOut.calls[1].source)
        /\ fnOut.calls[1].source = RefDropCRBeforeLF(fnIn.source)

(***************************************************************************)
(* The argument vector                                                     *)
(***************************************************************************)
MaxArgs == 2

FileDirnameArg == Str("${fileDirname}")

\* arguments: a flag, the literal, and a flag that only contains it
ArgChoices == {Str("--profile"), FileDirnameArg, <<"--src=", "${fileDirname}">>}

ArgvPathChoices == {<<>>, <<Str("isort-bin")>>, <<FileDirnameArg, Str("run")>>}

ExtraArgsChoices == {<<>>, <<Str("--check")>>, <<FileDirnameArg>>}

ArgvInputs ==
    {[path |-> p, interpreter |-> i, args |-> a, extra_args |-> x,
      use_stdin |-> b, uri |-> u] :
        p \in ArgvPathChoices, i \in {<<>>, <<OTHER_PYTHON>>},
        a \in SeqsUpTo(ArgChoices, MaxArgs), x \in ExtraArgsChoices,
        b \in BOOLEAN, u \in {UriA, UriCell}}

ArgvInit ==
    /\ initialized = TRUE
    /\ \E in \in ArgvInputs :
          /\ fnIn = in
          /\ WORKSPACE_SETTINGS =
                 _update_workspace_settings(<<>>, <<>>,
                     <<ClientSetting(<<"ws">>, in.path, in.interpreter,
                                     in.args, TRUE)>>)
    /\ GLOBAL_SETTINGS = <<>>
    /\ published = [u \in Uris |-> Unset]
    /\ firstArgv = [u \in Uris |-> <<>>]
    /\ editor_uri = UriA
    /\ last = Idle
    /\ fnOut = NoOutput
    /\ inbox = <<>>
    /\ wire = <<>>

\* _run_tool_on_document for the drawn document, arguments and stdin use
ArgvStep ==
    /\ ~fnOut.done
    /\ \E run \in {_run_tool_on_document(WORKSPACE_SETTINGS, GLOBAL_SETTINGS,
                                         get_text_document(fnIn.uri),
                                         fnIn.use_stdin, fnIn.extra_args,
                                         NoOutcome)} :
          fnOut' = [done |-> TRUE, calls |-> run.calls, argv |-> run.argv]
    /\ UNCHANGED <<initialized, WORKSPACE_SETTINGS, GLOBAL_SETTINGS,
                   published, firstArgv, editor_uri, last, fnIn,
                   inbox, wire>>

SpecArgv == ArgvInit /\ [][ArgvStep]_vars

\* the vector before the literal is replaced: the executable path or the
\* module name, then what follows it
RefUnresolvedArgv(in) ==
    (IF in.path # <<>> THEN in.path ELSE <<TOOL_MODULE>>)
    \o (IF in.use_stdin THEN <<Str("-")>> ELSE <<>>)
    \o TOOL_ARGS \o in.args \o in.extra_args
    \o (IF in.use_stdin THEN <<Str("--filename")>> ELSE <<>>)
    \o <<in.uri.path>>

RefDirectoryOf(uri) == SubSeq(uri.path, 1, Len(uri.path) - 1)

\* C25: the argv is the executable path or module name, then (with stdin)
\* "-", the default, workspace and extra arguments in that order, then
\* (with stdin) "--filename", then the document path; every element equal
\* to the literal ${fileDirname} is the document's directory instead, and
\* no other element differs.
C25_ArgvLayout ==
    fnOut.done /\ fnOut.calls # <<>> =>
        LET ref == RefUnresolvedArgv(fnIn)
        IN /\ Len(fnOut.argv) = Len(ref)
           /\ \A i \in 1..Len(ref) :
                 fnOut.argv[i] = IF ref[i] = FileDirnameArg
                                 THEN RefDirectoryOf(fnIn.uri)
                                 ELSE ref[i]
           /\ fnOut.calls[1].argv = fnOut.argv

\* stdin, workspace arguments holding the literal and a flag that contains
\* it, and an extra argument
C25_Witness ==
    /\ fnOut.done
    /\ fnIn.use_stdin
    /\ fnIn.args = <<FileDirnameArg, <<"--src=", "${fileDirname}">>>>
    /\ fnIn.extra_args = <<Str("--check")>>
    /\ fnIn.path = <<>>
    /\ fnIn.uri = UriA
    /\ fnOut.argv = <<TOOL_MODULE, Str("-"), <<"ws">>,
                      <<"--src=", "${fileDirname}">>, Str("--check"),
                      Str("--filename"), <<"ws", "a.py">>>>

(***************************************************************************)
(* sys.path around an in-process call                                      *)
(***************************************************************************)
SysPathChoices == {<<"libs">>, <<"libs", "site">>}

\* what the tool does to the list sys.path names while it runs
PathEffects == {"none", "insert", "append"}

ToolOnPath(path, effect) ==
    CASE effect = "insert" -> <<"tool">> \o path
      [] effect = "append" -> path \o <<"tool">>
      [] OTHER -> path

\* lsp_utils.substitute_attr(sys, "path", new_value) around a call: the
\* call works on new_value and the old list is put back on every exit
substitute_attr(old_value, new_value, effect) ==
    [during |-> ToolOnPath(new_value, effect), after |-> old_value]

\* sys.path after _run_tool_on_document: lines 746-769 call
\* utils.run_module with sys.path as it is
SysPathAfterDocumentRun(run, sys_path, effect) ==
    IF run.calls # <<>> /\ run.calls[1].fn = "run_module"
    THEN ToolOnPath(sys_path, effect)
    ELSE sys_path

\* sys.path after _run_tool: lines 825-835 call utils.run_module inside
\* substitute_attr(sys, "path", [""] + sys.path[:])
SysPathAfterToolRun(run, sys_path, effect) ==
    IF run.calls # <<>> /\ run.calls[1].fn = "run_module"
    THEN substitute_attr(sys_path, <<"">> \o sys_path, effect).after
    ELSE sys_path

SysPathInputs ==
    {[sys_path |-> p, effect |-> e, kind |-> k, by |-> b] :
        p \in SysPathChoices, e \in PathEffects,
        k \in {"ok", "raise", "FileSkipComment", "FileSkipped"},
        b \in {"_run_tool_on_document", "_run_tool"}}

SysPathInit ==
    /\ initialized = TRUE
    /\ WORKSPACE_SETTINGS \in StrategyRegistries
    /\ GLOBAL_SETTINGS = <<>>
    /\ published = [u \in Uris |-> Unset]
    /\ firstArgv = [u \in Uris |-> <<>>]
    /\ editor_uri = UriA
    /\ last = Idle
    /\ fnIn \in SysPathInputs
    /\ fnOut = NoOutput
    /\ inbox = <<>>
    /\ wire = <<>>

\* the check of a.py
SysPathDocumentStep ==
    /\ ~fnOut.done
    /\ fnIn.by = "_run_tool_on_document"
    /\ \E run \in {_run_tool_on_document(
                       WORKSPACE_SETTINGS, GLOBAL_SETTINGS,
                       get_text_document(UriA), TRUE, <<Str("--check")>>,
                       [NoOutcome EXCEPT !.kind = fnIn.kind])} :
          fnOut' = [done |-> TRUE, calls |-> run.calls, ret |-> run.ret,
                    sys_path |-> SysPathAfterDocumentRun(run, fnIn.sys_path,
                                                         fnIn.effect)]
    /\ UNCHANGED <<initialized, WORKSPACE_SETTINGS, GLOBAL_SETTINGS,
                   published, firstArgv, editor_uri, last, fnIn,
                   inbox, wire>>

\* the version query for the registered workspace
SysPathToolStep ==
    /\ ~fnOut.done
    /\ fnIn.by = "_run_tool"
    /\ \E run \in {_run_tool(<<Str("--version-number")>>,
                             DictValues(WORKSPACE_SETTINGS)[1],
                             [NoOutcome EXCEPT !.kind = fnIn.kind])} :
          fnOut' = [done |-> TRUE, calls |-> run.calls, ret |-> run.ret,
                    sys_path |-> SysPathAfterToolRun(run, fnIn.sys_path,
                                                     fnIn.effect)]
    /\ UNCHANGED <<initialized, WORKSPACE_SETTINGS, GLOBAL_SETTINGS,
                   published, firstArgv, editor_uri, last, fnIn,
                   inbox, wire>>

SysPathNext == SysPathDocumentStep \/ SysPathToolStep

SpecSysPath == SysPathInit /\ [][SysPathNext]_vars

InProcessCall == fnOut.calls # <<>> /\ fnOut.calls[1].fn = "run_module"

\* C26: after every in-process call, made for a document or for a version
\* or configuration query, sys.path is what it was before the call, also
\* when the tool raises or signals a skip.
C26_SysPathRestored ==
    fnOut.done /\ InProcessCall => fnOut.sys_path = fnIn.sys_path

(***************************************************************************)
(* Logging and notification                                                *)
(*                                                                         *)
(* Here `wire` holds the log and show-message notifications written to     *)
(* the client and fnIn the value of LS_SHOW_NOTIFICATION and the calls     *)
(* made so far.                                                            *)
(***************************************************************************)
MaxLogged == 3

\* LS_SHOW_NOTIFICATION: not set, or one of these values
LevelChoices == {"unset", "off", "onError", "onWarning", "always", "never"}

MessageChoices == {"m1", "m2"}

LogMessage(type, message) ==
    [method |-> "window/logMessage", type |-> type, message |-> message]

ShowMessage(type, message) ==
    [method |-> "window/showMessage", type |-> type, message |-> message]

\* os.getenv(name, default)
getenv(value, default) == IF value = "unset" THEN default ELSE value

log_to_output(level, message) == <<LogMessage("Log", message)>>

log_error(level, message) ==
    <<LogMessage("Error", message)>>
    \o (IF getenv(level, "off") \in {"onError", "onWarning", "always"}
        THEN <<ShowMessage("Error", message)>>
        ELSE <<>>)

\* a warning that is also shown at the level onError
log_warning_on_error(level, message) ==
    <<LogMessage("Warning", message)>>
    \o (IF getenv(level, "off") \in {"onError", "onWarning", "always"}
        THEN <<ShowMessage("Warning", message)>>
        ELSE <<>>)

log_warning(level, message) ==
    <<LogMessage("Warning", message)>>
    \o (IF getenv(level, "off") \in {"onWarning", "always"}
        THEN <<ShowMessage("Warning", message)>>
        ELSE <<>>)

log_always(level, message) ==
    <<LogMessage("Info", message)>>
    \o (IF getenv(level, "off") \in {"always"}
        THEN <<ShowMessage("Info", message)>>
        ELSE <<>>)

LogInit ==
    /\ initialized = TRUE
    /\ WORKSPACE_SETTINGS = CheckedWorkspace
    /\ GLOBAL_SETTINGS = <<>>
    /\ published = [u \in Uris |-> Unset]
    /\ firstArgv = [u \in Uris |-> <<>>]
    /\ editor_uri = UriA
    /\ last = Idle
    /\ \E level \in LevelChoices : fnIn = [level |-> level, calls |-> <<>>]
    /\ fnOut = NoOutput
    /\ inbox = <<>>
    /\ wire = <<>>

Logged(fn, message, written) ==
    /\ Len(fnIn.calls) < MaxLogged
    /\ wire' = wire \o written
    /\ fnIn' = [fnIn EXCEPT !.calls = Append(@, [fn |-> fn,
                                                 message |-> message])]
    /\ UNCHANGED <<initialized, WORKSPACE_SETTINGS, GLOBAL_SETTINGS,
                   published, firstArgv, editor_uri, last, fnOut, inbox>>

LogToOutput(message) ==
    /\ Logged("log_to_output", message, log_to_output(fnIn.level, message))

LogError(message) ==
    /\ Logged("log_error", message, log_error(fnIn.level, message))

LogWarning(message) ==
    /\ Logged("log_warning", message, log_warning(fnIn.level, message))

LogAlways(message) ==
    /\ Logged("log_always", message, log_always(fnIn.level, message))

LogNext ==
    \/ \E m \in MessageChoices : LogToOutput(m)
    \/ \E m \in MessageChoices : LogError(m)
    \/ \E m \in MessageChoices : LogWarning(m)
    \/ \E m \in MessageChoices : LogAlways(m)

SpecLog == LogInit /\ [][LogNext]_vars

\* the threshold a level stands for: it shows messages of at least this
\* severity rank (errors 3, warnings 2, information 1); 4 shows nothing
RefThreshold(level) ==
    CASE level = "always" -> 1
      [] level = "onWarning" -> 2
      [] level = "onError" -> 3
      [] OTHER -> 4

RefRank(type) ==
    CASE type = "Error" -> 3
      [] type = "Warning" -> 2
      [] type = "Info" -> 1
      [] OTHER -> 0

RefTypeOf(fn) ==
    CASE fn = "log_error" -> "Error"
      [] fn = "log_warning" -> "Warning"
      [] fn = "log_always" -> "Info"
      [] OTHER -> "Log"

\* what the calls made so far must have written
RECURSIVE RefWritten(_, _)
RefWritten(calls, level) ==
    IF calls = <<>> THEN <<>>
    ELSE LET c == Head(calls)
             type == RefTypeOf(c.fn)
         IN <<LogMessage(type, c.message)>>
            \o (IF RefRank(type) >= RefThreshold(level)
                THEN <<ShowMessage(type, c.message)>>
                ELSE <<>>)
            \o RefWritten(Tail(calls), level)

\* C27: every show-message notification comes right after a log entry
\* with the same message; every call writes its log entry at every level;
\* errors are shown iff the level is onError, onWarning or always,
\* warnings iff onWarning or always, information iff always, and nothing
\* is shown when the level is off or not set.
C27_ShownIsLoggedAndGated ==
    /\ \A i \in DOMAIN wire :
          wire[i].method = "window/showMessage" =>
             /\ i > 1
             /\ wire[i - 1] = LogMessage(wire[i].type, wire[i].message)
    /\ wire = RefWritten(fnIn.calls, fnIn.level)
    /\ fnIn.level \in {"off", "unset"} =>
          \A i \in DOMAIN wire : wire[i].method = "window/logMessage"

\* at the level onWarning an error and a warning are shown and an
\* information message is only logged
C27_Witness ==
    /\ fnIn.level = "onWarning"
    /\ fnIn.calls = <<[fn |-> "log_error", message |-> "m1"],
                      [fn |-> "log_warning", message |-> "m2"],
                      [fn |-> "log_always", message |-> "m1"]>>
    /\ Len(wire) = 5
    /\ wire[5] = LogMessage("Info", "m1")

(***************************************************************************)
(* The legacy formatter server: format_server._run                         *)
(*                                                                         *)
(* Here WORKSPACE_SETTINGS is format_server.WORKSPACE_SETTINGS.            *)
(***************************************************************************)
MaxRuns == 2

FORMATTER_ARGS == <<>>

RUNNER == <<"runner.py">>

\* format_server._filter_args, lines 42-51
_filter_args(args) ==
    SelectSeq(args, LAMBDA a :
        a \notin {Str("--diff"), Str("-h"), Str("--help"), Str("--version"),
                  Str("--overwrite-in-place")})

\* what lines 125-127 append to argv
format_server_appended(settings, document, extra_args) ==
    _filter_args(FORMATTER_ARGS \o settings.args) \o extra_args
    \o (IF document.path # <<>>
        THEN <<Str("--filename"), document.path, Str("-")>>
        ELSE <<Str("-")>>)

\* format_server._run up to the call of the tool, lines 97-130: the argv,
\* and the registry after it.  `argv = settings["path"]` names the
\* registered list itself, which the three `argv +=` then extend.
format_server_run(W, document, extra_args) ==
    IF is_stdlib_file(document.path)
    THEN [ret |-> "null", argv |-> <<>>, use_path |-> FALSE, registry |-> W]
    ELSE LET settings == format_server_get_settings_by_document(
                             W, document).settings
             more == format_server_appended(settings, document, extra_args)
         IN IF Len(settings.path) > 0
            THEN [ret |-> "run", argv |-> settings.path \o more,
                  use_path |-> TRUE,
                  registry |->
                      DictSet(W, settings.workspaceFS,
                              [settings EXCEPT !.path = settings.path \o more])]
            ELSE IF Len(settings.interpreter) > 0
                    /\ ~is_current_interpreter(settings.interpreter[1])
                 THEN [ret |-> "run",
                       argv |-> settings.interpreter
                                \o <<RUNNER, TOOL_MODULE>> \o more,
                       use_path |-> TRUE, registry |-> W]
                 ELSE [ret |-> "run", argv |-> <<TOOL_MODULE>> \o more,
                       use_path |-> FALSE, registry |-> W]

LegacyArgsChoices ==
    {<<>>, <<Str("--diff")>>, <<Str("--profile"), Str("black")>>}

LegacySettings ==
    {ClientSetting(<<"ws">>, p, i, a, TRUE) :
        p \in PathChoices, i \in InterpreterChoices, a \in LegacyArgsChoices}

LegacyInit ==
    /\ initialized = TRUE
    /\ \E setting \in LegacySettings, extra_args \in {<<>>, <<Str("--check")>>} :
          /\ WORKSPACE_SETTINGS =
                 format_server_update_workspace_settings(<<>>, <<setting>>)
          /\ fnIn = [path |-> setting.path, extra_args |-> extra_args,
                     runs |-> 0]
    /\ GLOBAL_SETTINGS = <<>>
    /\ published = [u \in Uris |-> Unset]
    /\ firstArgv = [u \in Uris |-> <<>>]
    /\ editor_uri = UriA
    /\ last = Idle
    /\ fnOut = NoOutput
    /\ inbox = <<>>
    /\ wire = <<>>

\* one call of _run for the document
LegacyRun(uri) ==
    /\ fnIn.runs < MaxRuns
    /\ \E r \in {format_server_run(WORKSPACE_SETTINGS, get_text_document(uri),
                                   fnIn.extra_args)} :
          /\ WORKSPACE_SETTINGS' = r.registry
          /\ firstArgv' = IF r.ret = "run" /\ firstArgv[uri] = <<>>
                          THEN [firstArgv EXCEPT ![uri] = r.argv]
                          ELSE firstArgv
          /\ fnOut' = [done |-> TRUE, ret |-> r.ret, argv |-> r.argv,
                       uri |-> uri, repeated |-> firstArgv[uri] # <<>>]
    /\ fnIn' = [fnIn EXCEPT !.runs = @ + 1]
    /\ UNCHANGED <<initialized, GLOBAL_SETTINGS, published, editor_uri, last,
                   inbox, wire>>

LegacyNext == \E uri \in {UriA, UriCell, UriStd} : LegacyRun(uri)

SpecLegacy == LegacyInit /\ [][LegacyNext]_vars

\* C28: every call of format_server._run for a document builds the argv
\* the first call built for it, and leaves the registered `path` list as
\* it was configured, a non-empty one included.
C28_LegacyArgvDoesNotAccumulate ==
    fnOut.done /\ fnOut.ret = "run" =>
        /\ fnOut.argv = firstArgv[fnOut.uri]
        /\ DictValues(WORKSPACE_SETTINGS)[1].path = fnIn.path

(***************************************************************************)
(* One publication per check                                               *)
(***************************************************************************)
\* C29: every did_open and did_save, whether the tool returned, raised or
\* was not called, publishes exactly once, for the URI of its document and
\* with at most one diagnostic; when the tool raised, the handler does not
\* fail and the list it publishes is empty and replaces what the client
\* held for the URI.
C29_OnePublicationPerCheck ==
    last.handler \in LintHandlers =>
        /\ Len(last.pubs) = 1
        /\ last.pubs[1].uri = last.uri
        /\ Len(last.pubs[1].diagnostics) <= 1
        /\ published[last.uri] =
               [set |-> TRUE, diagnostics |-> last.pubs[1].diagnostics]
        /\ last.response = NoResponse
        /\ last.out.kind = "raise" => last.pubs[1].diagnostics = <<>>

\* the tool raised in a check of a.py for which the client held a
\* diagnostic
C29_Witness ==
    /\ last.handler = "did_save"
    /\ last.uri = UriA
    /\ last.calls # <<>>
    /\ last.out.kind = "raise"
    /\ last.before.diagnostics # <<>>
    /\ published[UriA] = [set |-> TRUE, diagnostics |-> <<>>]

(***************************************************************************)
(* The registry after initialize                                           *)
(***************************************************************************)
\* a document whose path is None
DocumentWithoutPath ==
    [uri |-> UriA, path |-> PathNone, source |-> <<>>, version |-> 1]

RegisteredSettings ==
    {WORKSPACE_SETTINGS[i][2] : i \in 1..Len(WORKSPACE_SETTINGS)}

\* C30: once initialize is handled, with an empty settings list too, the
\* registry is not empty, every entry's workspaceFS is the key it is
\* stored under, and the settings found for no document and for a document
\* without a path are a registered record.
C30_RegistryNonEmptyAfterInitialize ==
    initialized =>
        /\ WORKSPACE_SETTINGS # <<>>
        /\ \A i \in 1..Len(WORKSPACE_SETTINGS) :
              WORKSPACE_SETTINGS[i][2].workspaceFS = WORKSPACE_SETTINGS[i][1]
        /\ _get_settings_by_document(WORKSPACE_SETTINGS, GLOBAL_SETTINGS,
                                     NoDocument) \in RegisteredSettings
        /\ _get_settings_by_document(WORKSPACE_SETTINGS, GLOBAL_SETTINGS,
                                     DocumentWithoutPath)
               \in RegisteredSettings

\* initialize was given an empty settings list: the registry holds the
\* server's working directory with the global defaults
C30_Witness ==
    /\ last.handler = "initialize"
    /\ DictKeys(WORKSPACE_SETTINGS) = <<SERVER_CWD>>
    /\ WORKSPACE_SETTINGS[1][2].cwd = SERVER_CWD
    /\ _get_settings_by_document(WORKSPACE_SETTINGS, GLOBAL_SETTINGS,
                                 NoDocument) = WORKSPACE_SETTINGS[1][2]

====
